---- MODULE Spec2Model ----
(***************************************************************************)
(* Model of the CELL coordinate codec (sashite/cell.go).                   *)
(*                                                                         *)
(* Strings are sequences of bytes (0..255).  Go's int is modelled with its *)
(* 64-bit width as four 16-bit limbs (least significant first), so that    *)
(* the decoders' arithmetic wraps exactly where the program's does.        *)
(***************************************************************************)
EXTENDS Integers, Sequences, FiniteSets, TLC

----------------------------------------------------------------------------
(* Program constants (coordinate.go)                                       *)

MaxDimensions == 3

MaxIndex == 255

MaxStringLen == 7

----------------------------------------------------------------------------
(* Sentinel errors (errors file)                                           *)

Nil == "nil"

ErrEmptyInput == "ErrEmptyInput"

ErrInputTooLong == "ErrInputTooLong"

ErrInvalidStart == "ErrInvalidStart"

ErrUnexpectedChar == "ErrUnexpectedChar"

ErrLeadingZero == "ErrLeadingZero"

ErrTooManyDims == "ErrTooManyDims"

ErrIndexOutOfRange == "ErrIndexOutOfRange"

----------------------------------------------------------------------------
(* 64-bit int arithmetic on limbs                                          *)

Limb == 65536

\* the values of type int
Int64 == [1..4 -> 0..(Limb - 1)]

\* int(n) for a small non-negative n
I64(n) == << n % Limb, (n \div Limb) % Limb, 0, 0 >>

\* (x * m + a) modulo 2^64, for 0 <= m < 2^15 and 0 <= a < 2^15
I64MulAdd(x, m, a) ==
  LET t1 == x[1] * m + a
      t2 == x[2] * m + (t1 \div Limb)
      t3 == x[3] * m + (t2 \div Limb)
      t4 == x[4] * m + (t3 \div Limb)
  IN  << t1 % Limb, t2 % Limb, t3 % Limb, t4 % Limb >>

\* the top limb of x * m + a before reduction modulo 2^64
I64MulAddTop(x, m, a) ==
  LET t1 == x[1] * m + a
      t2 == x[2] * m + (t1 \div Limb)
      t3 == x[3] * m + (t2 \div Limb)
  IN  x[4] * m + (t3 \div Limb)

\* (x + y) modulo 2^64
I64Add(x, y) ==
  LET t1 == x[1] + y[1]
      t2 == x[2] + y[2] + (t1 \div Limb)
      t3 == x[3] + y[3] + (t2 \div Limb)
      t4 == x[4] + y[4] + (t3 \div Limb)
  IN  << t1 % Limb, t2 % Limb, t3 % Limb, t4 % Limb >>

\* x - 1 modulo 2^64
I64Dec(x) == I64Add(x, << Limb - 1, Limb - 1, Limb - 1, Limb - 1 >>)

\* x < 0 as a signed 64-bit integer
I64Neg(x) == x[4] >= Limb \div 2

\* (x - y) modulo 2^64
I64Sub(x, y) ==
  LET t1 == x[1] - y[1]
      t2 == x[2] - y[2] + (t1 \div Limb)
      t3 == x[3] - y[3] + (t2 \div Limb)
      t4 == x[4] - y[4] + (t3 \div Limb)
  IN  << t1 % Limb, t2 % Limb, t3 % Limb, t4 % Limb >>

\* x < y as signed 64-bit integers
I64Lt(x, y) ==
  LET tx == (x[4] + Limb \div 2) % Limb
      ty == (y[4] + Limb \div 2) % Limb
  IN  \/ tx < ty
      \/ tx = ty /\ x[3] < y[3]
      \/ tx = ty /\ x[3] = y[3] /\ x[2] < y[2]
      \/ tx = ty /\ x[3] = y[3] /\ x[2] = y[2] /\ x[1] < y[1]

\* the quotient and the remainder of x >= 0 by m, for 0 < m < 2^15
I64DivMod(x, m) ==
  LET q4 == x[4] \div m
      c3 == (x[4] % m) * Limb + x[3]
      q3 == c3 \div m
      c2 == (c3 % m) * Limb + x[2]
      q2 == c2 \div m
      c1 == (c2 % m) * Limb + x[1]
      q1 == c1 \div m
  IN  [q |-> << q1, q2, q3, q4 >>, r |-> I64(c1 % m)]

\* x / m of Go, which truncates toward zero, for 0 < m < 2^15
I64Quo(x, m) ==
  IF I64Neg(x)
    THEN I64Sub(I64(0), I64DivMod(I64Sub(I64(0), x), m).q)
    ELSE I64DivMod(x, m).q

\* x % m of Go, which has the sign of x, for 0 < m < 2^15
I64Rem(x, m) ==
  IF I64Neg(x)
    THEN I64Sub(I64(0), I64DivMod(I64Sub(I64(0), x), m).r)
    ELSE I64DivMod(x, m).r

\* x > k as a signed 64-bit integer, for 0 <= k < 2^16
I64Gt(x, k) == ~I64Neg(x) /\ (x[4] # 0 \/ x[3] # 0 \/ x[2] # 0 \/ x[1] > k)

\* uint8(x)
I64ToUint8(x) == x[1] % 256

----------------------------------------------------------------------------
(* Character classification (parse.go)                                     *)

\* mutant: the range starts one byte early, at "`"
isLower_Early(c) == c >= 96 /\ c <= 122

isLower(c) == c >= 97 /\ c <= 122

isUpper(c) == c >= 65 /\ c <= 90

isDigit(c) == c >= 48 /\ c <= 57

\* s[from:to] of Go (0-based, end exclusive)
Slice(s, from, to) == SubSeq(s, from + 1, to)

\* for cursor < n && isLower(s[cursor]) { cursor++ }
RECURSIVE scanLower(_, _)
scanLower(s, cursor) ==
  IF cursor < Len(s) /\ isLower(s[cursor + 1])
    THEN scanLower(s, cursor + 1)
    ELSE cursor

\* for cursor < n && isDigit(s[cursor]) { cursor++ }
RECURSIVE scanDigit(_, _)
scanDigit(s, cursor) ==
  IF cursor < Len(s) /\ isDigit(s[cursor + 1])
    THEN scanDigit(s, cursor + 1)
    ELSE cursor

\* for cursor < n && isUpper(s[cursor]) { cursor++ }
RECURSIVE scanUpper(_, _)
scanUpper(s, cursor) ==
  IF cursor < Len(s) /\ isUpper(s[cursor + 1])
    THEN scanUpper(s, cursor + 1)
    ELSE cursor

----------------------------------------------------------------------------
(* Decoding helpers (parse.go)                                             *)

RECURSIVE decodeLowerLoop(_, _, _)
decodeLowerLoop(s, i, val) ==
  IF i < Len(s)
    THEN decodeLowerLoop(s, i + 1, I64MulAdd(val, 26, ((s[i + 1] - 97) % 256) + 1))
    ELSE val

decodeLower(s) == I64Dec(decodeLowerLoop(s, 0, I64(0)))

RECURSIVE decodeUpperLoop(_, _, _)
decodeUpperLoop(s, i, val) ==
  IF i < Len(s)
    THEN decodeUpperLoop(s, i + 1, I64MulAdd(val, 26, ((s[i + 1] - 65) % 256) + 1))
    ELSE val

decodeUpper(s) == I64Dec(decodeUpperLoop(s, 0, I64(0)))

RECURSIVE decodeDigitLoop(_, _, _)
decodeDigitLoop(s, i, val) ==
  IF i < Len(s)
    THEN decodeDigitLoop(s, i + 1, I64MulAdd(val, 10, (s[i + 1] - 48) % 256))
    ELSE val

\* mutant: the decimal value is not made 0-indexed
decodeDigit_OneBased(s) == decodeDigitLoop(s, 0, I64(0))

decodeDigit(s) == I64Dec(decodeDigitLoop(s, 0, I64(0)))

----------------------------------------------------------------------------
(* validate (parse.go)                                                     *)

Continue == "continue"

\* mutant: case 0 without the range check
validateLower_NoRange(s, cursor) ==
  [ret |-> Continue, cursor |-> scanLower(s, cursor)]

\* case 0 of the switch: the error it returns, or Continue and the new cursor
validateLower(s, cursor) ==
  LET cur == scanLower(s, cursor) IN
  IF I64Gt(decodeLower(Slice(s, cursor, cur)), MaxIndex)
    THEN [ret |-> ErrIndexOutOfRange, cursor |-> cur]
    ELSE [ret |-> Continue, cursor |-> cur]

\* mutant: case 1 without the leading-zero check
validateDigit_NoZero(s, cursor) ==
  LET cur == scanDigit(s, cursor) IN
  IF cur = cursor THEN [ret |-> ErrUnexpectedChar, cursor |-> cur]
  ELSE IF I64Gt(decodeDigit(Slice(s, cursor, cur)), MaxIndex)
    THEN [ret |-> ErrIndexOutOfRange, cursor |-> cur]
  ELSE [ret |-> Continue, cursor |-> cur]

\* case 1 of the switch
validateDigit(s, cursor) ==
  IF s[cursor + 1] = 48 THEN [ret |-> ErrLeadingZero, cursor |-> cursor]
  ELSE
  LET cur == scanDigit(s, cursor) IN
  IF cur = cursor THEN [ret |-> ErrUnexpectedChar, cursor |-> cur]
  ELSE IF I64Gt(decodeDigit(Slice(s, cursor, cur)), MaxIndex)
    THEN [ret |-> ErrIndexOutOfRange, cursor |-> cur]
  ELSE [ret |-> Continue, cursor |-> cur]

\* mutant: case 2 reports an empty run as a dimension too many
validateUpper_Empty(s, cursor) ==
  LET cur == scanUpper(s, cursor) IN
  IF cur = cursor THEN [ret |-> ErrTooManyDims, cursor |-> cur]
  ELSE IF I64Gt(decodeUpper(Slice(s, cursor, cur)), MaxIndex)
    THEN [ret |-> ErrIndexOutOfRange, cursor |-> cur]
  ELSE [ret |-> Continue, cursor |-> cur]

\* case 2 of the switch
validateUpper(s, cursor) ==
  LET cur == scanUpper(s, cursor) IN
  IF cur = cursor THEN [ret |-> ErrUnexpectedChar, cursor |-> cur]
  ELSE IF I64Gt(decodeUpper(Slice(s, cursor, cur)), MaxIndex)
    THEN [ret |-> ErrIndexOutOfRange, cursor |-> cur]
  ELSE [ret |-> Continue, cursor |-> cur]

\* mutant: the dimension ceiling lets a fourth run through
validateIter_Ceiling(s, cursor, dim) ==
  IF dim > MaxDimensions
    THEN [ret |-> ErrTooManyDims, cursor |-> cursor, dim |-> dim]
    ELSE LET start == cursor
             mode == dim % 3
             r == CASE mode = 0 -> validateLower(s, cursor)
                    [] mode = 1 -> validateDigit(s, cursor)
                    [] mode = 2 -> validateUpper(s, cursor)
         IN  IF r.ret # Continue
               THEN [ret |-> r.ret, cursor |-> r.cursor, dim |-> dim]
             ELSE IF r.cursor = start
               THEN [ret |-> ErrUnexpectedChar, cursor |-> r.cursor, dim |-> dim]
             ELSE [ret |-> Continue, cursor |-> r.cursor, dim |-> dim + 1]

\* One iteration of validate's loop, entered with cursor < len(s): the error
\* it returns, or Continue with the advanced cursor and dimension counter.
validateIter(s, cursor, dim) ==
  IF dim >= MaxDimensions
    THEN [ret |-> ErrTooManyDims, cursor |-> cursor, dim |-> dim]
    ELSE LET start == cursor
             mode == dim % 3
             r == CASE mode = 0 -> validateLower(s, cursor)
                    [] mode = 1 -> validateDigit(s, cursor)
                    [] mode = 2 -> validateUpper(s, cursor)
         IN  IF r.ret # Continue
               THEN [ret |-> r.ret, cursor |-> r.cursor, dim |-> dim]
             ELSE IF r.cursor = start
               THEN [ret |-> ErrUnexpectedChar, cursor |-> r.cursor, dim |-> dim]
             ELSE [ret |-> Continue, cursor |-> r.cursor, dim |-> dim + 1]

\* for cursor < n { ... } return nil
RECURSIVE validateLoop(_, _, _)
validateLoop(s, cursor, dim) ==
  IF cursor < Len(s)
    THEN LET r == validateIter(s, cursor, dim) IN
         IF r.ret = Continue THEN validateLoop(s, r.cursor, r.dim) ELSE r.ret
    ELSE Nil

\* mutant: the first byte is checked before the length
validate_StartFirst(s) ==
  LET n == Len(s) IN
  IF n = 0 THEN ErrEmptyInput
  ELSE IF ~isLower(s[1]) THEN ErrInvalidStart
  ELSE IF n > MaxStringLen THEN ErrInputTooLong
  ELSE validateLoop(s, 0, 0)

\* mutant: a string of MaxStringLen bytes is too long
validate_Tight(s) ==
  LET n == Len(s) IN
  IF n = 0 THEN ErrEmptyInput
  ELSE IF n >= MaxStringLen THEN ErrInputTooLong
  ELSE IF ~isLower(s[1]) THEN ErrInvalidStart
  ELSE validateLoop(s, 0, 0)

validate(s) ==
  LET n == Len(s) IN
  IF n = 0 THEN ErrEmptyInput
  ELSE IF n > MaxStringLen THEN ErrInputTooLong
  ELSE IF ~isLower(s[1]) THEN ErrInvalidStart
  ELSE validateLoop(s, 0, 0)

Validate(s) == validate(s)

IsValid(s) == validate(s) = Nil

----------------------------------------------------------------------------
(* Coordinate (coordinate.go)                                              *)

\* type Coordinate struct { indices [MaxDimensions]uint8; dims uint8 }
Coordinate == [indices : [1..MaxDimensions -> 0..255], dims : 0..255]

\* Coordinate{}
ZeroCoordinate == [indices |-> [i \in 1..MaxDimensions |-> 0], dims |-> 0]

\* c.indices[i] = v; ok is FALSE once an index was out of range (a panic)
SetIndex(r, i, v) ==
  IF ~r.ok \/ i < 0 \/ i >= MaxDimensions
    THEN [r EXCEPT !.ok = FALSE]
    ELSE [r EXCEPT !.c.indices[i + 1] = v]

----------------------------------------------------------------------------
(* parse (parse.go)                                                        *)

\* mutant: the decoded value is stored without the conversion to 0-indexed
parseStep_OneBased(s, cursor, dim) ==
  LET mode == dim % 3
      cur == CASE mode = 0 -> scanLower(s, cursor)
               [] mode = 1 -> scanDigit(s, cursor)
               [] mode = 2 -> scanUpper(s, cursor)
  IN  [start |-> cursor, cursor |-> cur, dim |-> dim,
       val |-> CASE mode = 0 -> decodeLowerLoop(Slice(s, cursor, cur), 0, I64(0))
                 [] mode = 1 -> decodeDigitLoop(Slice(s, cursor, cur), 0, I64(0))
                 [] mode = 2 -> decodeUpperLoop(Slice(s, cursor, cur), 0, I64(0))]

\* One iteration of parse's loop: the run it scans (start, cursor), the slot
\* dim of c.indices it writes and the int it converts to uint8 for the write.
parseStep(s, cursor, dim) ==
  LET mode == dim % 3
      cur == CASE mode = 0 -> scanLower(s, cursor)
               [] mode = 1 -> scanDigit(s, cursor)
               [] mode = 2 -> scanUpper(s, cursor)
  IN  [start |-> cursor, cursor |-> cur, dim |-> dim,
       val |-> CASE mode = 0 -> decodeLower(Slice(s, cursor, cur))
                 [] mode = 1 -> decodeDigit(Slice(s, cursor, cur))
                 [] mode = 2 -> decodeUpper(Slice(s, cursor, cur))]

RECURSIVE parseLoop(_, _, _, _)

\* c.indices[dim] = uint8(st.val); dim++
parseLoopNext(s, st, r) ==
  parseLoop(s, st.cursor, st.dim + 1, SetIndex(r, st.dim, I64ToUint8(st.val)))

\* for cursor < n { ... } c.dims = uint8(dim)
parseLoop(s, cursor, dim, r) ==
  IF cursor < Len(s) /\ r.ok
    THEN parseLoopNext(s, parseStep(s, cursor, dim), r)
    ELSE [r EXCEPT !.c.dims = dim % 256]

\* parse(s): the Coordinate, with ok FALSE when the array index panics
parse(s) == parseLoop(s, 0, 0, [c |-> ZeroCoordinate, ok |-> TRUE])

\* mutant: the Coordinate decoded so far is returned together with the error
Parse_Partial(s) ==
  LET err == validate(s)
      r == parse(s)
  IN  [c |-> r.c, err |-> err, ok |-> TRUE]

\* Parse(s): validate, then parse
Parse(s) ==
  LET err == validate(s) IN
  IF err # Nil
    THEN [c |-> ZeroCoordinate, err |-> err, ok |-> TRUE]
    ELSE LET r == parse(s) IN [c |-> r.c, err |-> Nil, ok |-> r.ok]

----------------------------------------------------------------------------
(* Length calculation and encoding helpers (format.go)                     *)

\* mutant: the one-letter range is one value too wide
alphaLength_Wide(val) == IF val <= 26 THEN 1 ELSE 2

alphaLength(val) == IF val < 26 THEN 1 ELSE 2

\* mutant: no numeric run is given more than two bytes
digitLength_Short(val) ==
  LET v == val + 1 IN
  IF v < 10 THEN 1 ELSE 2

digitLength(val) ==
  LET v == val + 1 IN
  IF v < 10 THEN 1 ELSE IF v < 100 THEN 2 ELSE 3

\* var buf [MaxStringLen]byte
ZeroBuf == [bytes |-> [i \in 1..MaxStringLen |-> 0], ok |-> TRUE]

\* buf[pos:][i] = ch; ok is FALSE once an index was out of range (a panic)
BufWrite(b, pos, i, ch) ==
  IF ~b.ok \/ i < 0 \/ pos + i >= MaxStringLen
    THEN [b EXCEPT !.ok = FALSE]
    ELSE [b EXCEPT !.bytes[pos + i + 1] = ch]

RECURSIVE encodeLowerLoop(_, _, _, _)
encodeLowerLoop(b, pos, i, v) ==
  IF v > 0 /\ b.ok
    THEN encodeLowerLoop(BufWrite(b, pos, i - 1, (97 + ((v - 1) % 26)) % 256),
                         pos, i - 1, (v - 1) \div 26)
    ELSE b

encodeLower(b, pos, val) ==
  LET length == alphaLength(val) IN
  [buf |-> encodeLowerLoop(b, pos, length, val + 1), n |-> length]

RECURSIVE encodeUpperLoop(_, _, _, _)
encodeUpperLoop(b, pos, i, v) ==
  IF v > 0 /\ b.ok
    THEN encodeUpperLoop(BufWrite(b, pos, i - 1, (65 + ((v - 1) % 26)) % 256),
                         pos, i - 1, (v - 1) \div 26)
    ELSE b

encodeUpper(b, pos, val) ==
  LET length == alphaLength(val) IN
  [buf |-> encodeUpperLoop(b, pos, length, val + 1), n |-> length]

RECURSIVE encodeDigitLoop(_, _, _, _)
encodeDigitLoop(b, pos, i, v) ==
  IF v > 0 /\ b.ok
    THEN encodeDigitLoop(BufWrite(b, pos, i - 1, (48 + (v % 10)) % 256),
                         pos, i - 1, v \div 10)
    ELSE b

\* mutant: the index is rendered as it is, without the step to 1-indexing
encodeDigit_ZeroBased(b, pos, val) ==
  LET length == digitLength(val) IN
  [buf |-> encodeDigitLoop(b, pos, length, val), n |-> length]

encodeDigit(b, pos, val) ==
  LET length == digitLength(val) IN
  [buf |-> encodeDigitLoop(b, pos, length, val + 1), n |-> length]

----------------------------------------------------------------------------
(* format (format.go)                                                      *)

RECURSIVE formatLoop(_, _, _, _)
formatLoop(c, i, b, pos) ==
  IF i < c.dims /\ b.ok
    THEN IF i >= MaxDimensions \/ pos > MaxStringLen
           THEN formatLoop(c, i + 1, [b EXCEPT !.ok = FALSE], pos)
           ELSE LET val == c.indices[i + 1]
                    mode == i % 3
                    e == CASE mode = 0 -> encodeLower(b, pos, val)
                           [] mode = 1 -> encodeDigit(b, pos, val)
                           [] mode = 2 -> encodeUpper(b, pos, val)
                IN  formatLoop(c, i + 1, e.buf, pos + e.n)
    ELSE IF b.ok /\ pos <= MaxStringLen
           THEN [s |-> SubSeq(b.bytes, 1, pos), ok |-> TRUE]
           ELSE [s |-> << >>, ok |-> FALSE]

\* format(c): the string, with ok FALSE when a buffer index panics
format(c) == formatLoop(c, 0, ZeroBuf, 0)

----------------------------------------------------------------------------
(* Coordinate construction and accessors (coordinate.go)                   *)

\* mutant: the copy stops one index short
NewCoordinate_ShortCopy(indices) ==
  IF Len(indices) = 0 THEN [c |-> ZeroCoordinate, ok |-> FALSE]
  ELSE IF Len(indices) > MaxDimensions THEN [c |-> ZeroCoordinate, ok |-> FALSE]
  ELSE [c |-> [indices |-> [i \in 1..MaxDimensions |->
                              IF i < Len(indices) THEN indices[i] ELSE 0],
               dims |-> Len(indices) % 256],
        ok |-> TRUE]

\* mutant: the slots after the last index are not left at zero
NewCoordinate_Dirty(indices) ==
  IF Len(indices) = 0 THEN [c |-> ZeroCoordinate, ok |-> FALSE]
  ELSE IF Len(indices) > MaxDimensions THEN [c |-> ZeroCoordinate, ok |-> FALSE]
  ELSE [c |-> [indices |-> [i \in 1..MaxDimensions |->
                              IF i <= Len(indices) THEN indices[i] ELSE 255],
               dims |-> Len(indices) % 256],
        ok |-> TRUE]

\* mutant: no check of the upper limit on the number of indices
NewCoordinate_NoLimit(indices) ==
  IF Len(indices) = 0 THEN [c |-> ZeroCoordinate, ok |-> FALSE]
  ELSE [c |-> [indices |-> [i \in 1..MaxDimensions |->
                              IF i <= Len(indices) THEN indices[i] ELSE 0],
               dims |-> Len(indices) % 256],
        ok |-> TRUE]

\* NewCoordinate(indices...): ok is FALSE when it panics
NewCoordinate(indices) ==
  IF Len(indices) = 0 THEN [c |-> ZeroCoordinate, ok |-> FALSE]
  ELSE IF Len(indices) > MaxDimensions THEN [c |-> ZeroCoordinate, ok |-> FALSE]
  ELSE [c |-> [indices |-> [i \in 1..MaxDimensions |->
                              IF i <= Len(indices) THEN indices[i] ELSE 0],
               dims |-> Len(indices) % 256],
        ok |-> TRUE]

\* a == b on Coordinate values: every field is compared, the whole indices
\* array included
CoordinateEq(a, b) == a.indices = b.indices /\ a.dims = b.dims

Dims(c) == c.dims

\* make([]uint8, c.dims); copy(result, c.indices[:c.dims])
Indices(c) ==
  IF c.dims > MaxDimensions
    THEN [val |-> << >>, ok |-> FALSE]
    ELSE [val |-> [i \in 1..c.dims |-> c.indices[i]], ok |-> TRUE]

\* mutant: one array is shared by every call
make_Reuse(h, n) ==
  IF Len(h) > 0
    THEN [heap |-> [h EXCEPT ![1] = [i \in 1..n |-> 0]], arr |-> 1]
    ELSE [heap |-> Append(h, [i \in 1..n |-> 0]), arr |-> Len(h) + 1]

\* make([]uint8, n): a new array of n zeroes, and the place of it
make(h, n) == [heap |-> Append(h, [i \in 1..n |-> 0]), arr |-> Len(h) + 1]

\* Indices() with the memory it returns: the slice refers to the new array,
\* which holds a copy of c.indices[:c.dims]
IndicesSlice(c, h) ==
  LET m == make(h, c.dims) IN
  [heap |-> [m.heap EXCEPT ![m.arr] = [i \in 1..c.dims |-> c.indices[i]]],
   slice |-> [arr |-> m.arr, len |-> c.dims]]

\* mutant: the index is checked against the size of the storage
At_Storage(c, i) ==
  IF i < 0 \/ i >= MaxDimensions
    THEN [val |-> 0, ok |-> FALSE]
    ELSE [val |-> c.indices[i + 1], ok |-> TRUE]

At(c, i) ==
  IF i < 0 \/ i >= c.dims
    THEN [val |-> 0, ok |-> FALSE]
    ELSE IF i >= MaxDimensions
           THEN [val |-> 0, ok |-> FALSE]
           ELSE [val |-> c.indices[i + 1], ok |-> TRUE]

String(c) == format(c)

----------------------------------------------------------------------------
(* Regex variant: validation and scanning                                  *)

lowercase == 0

numeric == 1

uppercase == 2

\* cellRegex ^[a-z]+(?:[1-9][0-9]*[A-Z]+[a-z]+)*(?:[1-9][0-9]*[A-Z]*)?$ as
\* its automaton: q is the run the previous byte belongs to.
cellRegexStep(q, ch) ==
  LET az == ch >= 97 /\ ch <= 122
      AZ == ch >= 65 /\ ch <= 90
      d09 == ch >= 48 /\ ch <= 57
      d19 == ch >= 49 /\ ch <= 57
  IN
  CASE q = "start" -> IF az THEN "lower" ELSE "fail"
    [] q = "lower" -> IF az THEN "lower" ELSE IF d19 THEN "digit" ELSE "fail"
    [] q = "digit" -> IF d09 THEN "digit" ELSE IF AZ THEN "upper" ELSE "fail"
    [] q = "upper" -> IF AZ THEN "upper" ELSE IF az THEN "lower" ELSE "fail"
    [] q = "fail" -> "fail"

RECURSIVE cellRegexRun(_, _, _)
cellRegexRun(s, i, q) ==
  IF i < Len(s) THEN cellRegexRun(s, i + 1, cellRegexStep(q, s[i + 1])) ELSE q

\* cellRegex.MatchString(s)
cellRegex(s) == cellRegexRun(s, 0, "start") \in {"lower", "digit", "upper"}

\* strings.ContainsAny(s, "\r\n")
ContainsLineBreak(s) == \E i \in 1..Len(s) : s[i] = 13 \/ s[i] = 10

Valid(s) ==
  IF Len(s) = 0 THEN FALSE
  ELSE IF ContainsLineBreak(s) THEN FALSE
  ELSE cellRegex(s)

getDimensionType(dimension) ==
  CASE dimension % 3 = 1 -> lowercase
    [] dimension % 3 = 2 -> numeric
    [] OTHER -> uppercase

\* the length of the longest prefix of s[i:] made of bytes lo..hi
RECURSIVE classPrefix(_, _, _, _)
classPrefix(s, i, lo, hi) ==
  IF i < Len(s) /\ s[i + 1] >= lo /\ s[i + 1] <= hi
    THEN classPrefix(s, i + 1, lo, hi)
    ELSE i

\* the length of lowercaseRegex.FindString(s), ^[a-z]+
lowercaseRegex(s) == classPrefix(s, 0, 97, 122)

\* mutant: the numeric pattern takes one digit
numericRegex_OneDigit(s) ==
  IF Len(s) > 0 /\ s[1] >= 49 /\ s[1] <= 57 THEN 1 ELSE 0

\* the length of numericRegex.FindString(s), ^[1-9][0-9]*
numericRegex(s) ==
  IF Len(s) > 0 /\ s[1] >= 49 /\ s[1] <= 57 THEN classPrefix(s, 1, 48, 57) ELSE 0

\* the length of uppercaseRegex.FindString(s), ^[A-Z]+
uppercaseRegex(s) == classPrefix(s, 0, 65, 90)

extractComponent(s, dimType) ==
  LET n == CASE dimType = lowercase -> lowercaseRegex(s)
             [] dimType = numeric -> numericRegex(s)
             [] dimType = uppercase -> uppercaseRegex(s)
  IN  [component |-> SubSeq(s, 1, n), remaining |-> SubSeq(s, n + 1, Len(s))]

RECURSIVE parseRecursive(_, _)
parseRecursive(s, dimension) ==
  IF Len(s) = 0 THEN << >>
  ELSE LET e == extractComponent(s, getDimensionType(dimension)) IN
       IF e.component = << >> THEN << >>
       ELSE << e.component >> \o parseRecursive(e.remaining, dimension + 1)

\* Parse of the regex variant: the components, ok FALSE for the error
ParseComponents(s) ==
  IF ~Valid(s) THEN [val |-> << >>, ok |-> FALSE]
  ELSE [val |-> parseRecursive(s, 1), ok |-> TRUE]

Dimensions(s) ==
  LET r == ParseComponents(s) IN IF ~r.ok THEN 0 ELSE Len(r.val)

----------------------------------------------------------------------------
(* Regex variant: conversion to indices                                    *)

\* result, baseOffset and positionInLength are ints: every product and sum
\* below is taken modulo 2^64 and is a member of Int64
RECURSIVE powLoop(_, _, _, _)
powLoop(base, exp, i, acc) ==
  IF i < exp
    THEN LET result == I64MulAdd(acc, base, 0)
         IN  IF result \in Int64 THEN powLoop(base, exp, i + 1, result) ELSE acc
    ELSE acc

pow(base, exp) == powLoop(base, exp, 0, I64(1))

RECURSIVE baseOffsetLoop(_, _, _)
baseOffsetLoop(l, length, acc) ==
  IF l < length
    THEN LET baseOffset == I64Add(acc, pow(26, l))
         IN  IF baseOffset \in Int64 THEN baseOffsetLoop(l + 1, length, baseOffset) ELSE acc
    ELSE acc

RECURSIVE positionLoop(_, _, _)
positionLoop(letters, i, acc) ==
  IF i < Len(letters)
    THEN LET charValue == letters[i + 1] - 97
             positionInLength ==
               I64Add(acc, I64MulAdd(pow(26, Len(letters) - i - 1), charValue, 0))
         IN  IF positionInLength \in Int64
               THEN positionLoop(letters, i + 1, positionInLength)
               ELSE acc
    ELSE acc

\* defined for runs of a-z, the only ones the callers pass
lettersToIndex(letters) ==
  I64Add(baseOffsetLoop(1, Len(letters), I64(0)), positionLoop(letters, 0, I64(0)))

\* mutant: the base is not advanced with the length
RECURSIVE findLengthAndBaseLoop_NoBase(_, _, _, _)
findLengthAndBaseLoop_NoBase(index, length, base, last) ==
  LET rangeSize == pow(26, length)
      limit == I64Add(base, rangeSize)
  IN  IF I64Lt(index, limit)
        THEN [length |-> length, base |-> base, halts |-> TRUE]
        ELSE IF length >= last
          THEN [length |-> length + 1, base |-> base, halts |-> FALSE]
          ELSE findLengthAndBaseLoop_NoBase(index, length + 1, base, last)

\* findLengthAndBase(index): the iterations of the loop from the current
\* length and base up to the length last; halts is FALSE when the loop has
\* not returned by then, and length and base are those of the next iteration
RECURSIVE findLengthAndBaseLoop(_, _, _, _)
findLengthAndBaseLoop(index, length, base, last) ==
  LET rangeSize == pow(26, length)
      limit == I64Add(base, rangeSize)
  IN  IF I64Lt(index, limit)
        THEN [length |-> length, base |-> base, halts |-> TRUE]
        ELSE IF length >= last
          THEN [length |-> length + 1, base |-> limit, halts |-> FALSE]
          ELSE findLengthAndBaseLoop(index, length + 1, limit, last)

\* pow(26, length) is 0 modulo 2^64 from length 64 on, so that base + rangeSize
\* stays what it was when the test last failed: a loop that has not returned
\* by length 64 goes on for the 2^63 iterations that length takes to wrap, and
\* for ever for the largest int, which is below no int (halts is FALSE).
\* findLengthAndBaseFrom continues a loop that has not returned; the
\* iterations are evaluated in four stretches of 16.
findLengthAndBaseFrom(index, r, last) ==
  IF r.halts THEN r ELSE findLengthAndBaseLoop(index, r.length, r.base, last)

findLengthAndBase(index) ==
  findLengthAndBaseFrom(index,
    findLengthAndBaseFrom(index,
      findLengthAndBaseFrom(index,
        findLengthAndBaseLoop(index, 1, I64(0), 16), 32), 48), 64)

\* buildLetters(index, length): the loop at position i, result so far
RECURSIVE buildLettersLoop(_, _, _)
buildLettersLoop(index, i, result) ==
  IF i >= 0
    THEN LET ch == I64ToUint8(I64Add(I64(97), I64Rem(index, 26)))
             next == I64Quo(index, 26)
         IN  IF next \in Int64
               THEN buildLettersLoop(next, i - 1, [result EXCEPT ![i + 1] = ch])
               ELSE result
    ELSE result

buildLetters(index, length) ==
  buildLettersLoop(index, length - 1, [i \in 1..length |-> 0])

\* indexToLetters(index) returns
indexToLettersHalts(index) == findLengthAndBase(index).halts

\* what indexToLetters(index) returns when it returns
indexToLetters(index) ==
  LET lb == findLengthAndBase(index)
      adjustedIndex == I64Sub(index, lb.base)
  IN  IF lb.halts THEN buildLetters(adjustedIndex, lb.length) ELSE << >>

\* strings.ToLower on a run of A-Z
ToLower(s) ==
  [i \in 1..Len(s) |-> IF s[i] >= 65 /\ s[i] <= 90 THEN s[i] + 32 ELSE s[i]]

MaxInt64 == << Limb - 1, Limb - 1, Limb - 1, (Limb \div 2) - 1 >>

\* strconv.Atoi on a run of digits: the value, or MaxInt64 when it is out of
\* the range of int (the error is dropped by the caller)
RECURSIVE AtoiLoop(_, _, _)
AtoiLoop(s, i, val) ==
  IF i < Len(s)
    THEN IF I64MulAddTop(val, 10, s[i + 1] - 48) >= Limb \div 2
           THEN MaxInt64
           ELSE AtoiLoop(s, i + 1, I64MulAdd(val, 10, s[i + 1] - 48))
    ELSE val

Atoi(s) == AtoiLoop(s, 0, I64(0))

componentToIndex(component, dimType) ==
  CASE dimType = lowercase -> lettersToIndex(component)
    [] dimType = numeric -> I64Dec(Atoi(component))
    [] dimType = uppercase -> lettersToIndex(ToLower(component))

\* ToIndices: the indices as 64-bit ints, ok FALSE for the error
ToIndices(s) ==
  LET r == ParseComponents(s) IN
  IF ~r.ok THEN [val |-> << >>, ok |-> FALSE]
  ELSE [val |-> [i \in 1..Len(r.val) |->
                   componentToIndex(r.val[i], getDimensionType(i))],
        ok |-> TRUE]

\* strings.ToUpper on a string of ASCII bytes
ToUpper(s) ==
  [i \in 1..Len(s) |-> IF s[i] >= 97 /\ s[i] <= 122 THEN s[i] - 32 ELSE s[i]]

\* the decimal digits of x >= 0 (x is read as unsigned)
RECURSIVE ItoaDigits(_, _)
ItoaDigits(x, acc) ==
  LET d == I64DivMod(x, 10)
      digits == << 48 + d.r[1] >> \o acc
  IN  IF d.q \in Int64 /\ d.q # I64(0) THEN ItoaDigits(d.q, digits) ELSE digits

\* strconv.Itoa(x)
Itoa(x) ==
  IF I64Neg(x)
    THEN << 45 >> \o ItoaDigits(I64Sub(I64(0), x), << >>)
    ELSE ItoaDigits(x, << >>)

\* what indexToComponent(index, dimType) returns when it returns
indexToComponent(index, dimType) ==
  CASE dimType = lowercase -> indexToLetters(index)
    [] dimType = numeric -> Itoa(I64Add(index, I64(1)))
    [] dimType = uppercase -> ToUpper(indexToLetters(index))

\* indexToComponent(index, dimType) returns
indexToComponentHalts(index, dimType) ==
  dimType = numeric \/ indexToLettersHalts(index)

\* FromIndices' loop from the i-th index, with what the builder holds
RECURSIVE FromIndicesLoop(_, _, _)
FromIndicesLoop(indices, i, builder) ==
  IF i < Len(indices)
    THEN LET index == indices[i + 1]
             dimType == getDimensionType(i + 1)
         IN  IF I64Neg(index)
               THEN [val |-> << >>, ok |-> FALSE, halts |-> TRUE]
               ELSE IF ~indexToComponentHalts(index, dimType)
                 THEN [val |-> << >>, ok |-> FALSE, halts |-> FALSE]
                 ELSE FromIndicesLoop(indices, i + 1,
                                      builder \o indexToComponent(index, dimType))
    ELSE [val |-> builder, ok |-> TRUE, halts |-> TRUE]

\* FromIndices after its loop, which left r: the check of the result
FromIndicesResult(r) ==
  IF ~r.halts \/ ~r.ok THEN r
  ELSE IF ~Valid(r.val) THEN [val |-> << >>, ok |-> FALSE, halts |-> TRUE]
  ELSE r

\* FromIndices(indices): the string, ok FALSE for an error, halts FALSE when
\* the call does not return
FromIndices(indices) ==
  IF Len(indices) = 0
    THEN [val |-> << >>, ok |-> FALSE, halts |-> TRUE]
    ELSE FromIndicesResult(FromIndicesLoop(indices, 0, << >>))

----------------------------------------------------------------------------
(* Slice-returning variant: parsing (cell.go)                              *)

ErrEmpty == "ErrEmpty"

ErrInvalidFormat == "ErrInvalidFormat"

ErrInvalidChar == "ErrInvalidChar"

\* unicode.IsLower(rune(b)) for a byte b: the lowercase letters of Latin-1
unicodeIsLower(b) ==
  \/ b >= 97 /\ b <= 122
  \/ b = 181
  \/ b >= 223 /\ b <= 246
  \/ b >= 248 /\ b <= 255

\* unicode.IsDigit(rune(b)) for a byte b
unicodeIsDigit(b) == b >= 48 /\ b <= 57

\* unicode.IsUpper(rune(b)) for a byte b: the uppercase letters of Latin-1
unicodeIsUpper(b) ==
  \/ b >= 65 /\ b <= 90
  \/ b >= 192 /\ b <= 214
  \/ b >= 216 /\ b <= 222

RECURSIVE consumeLower(_, _)
consumeLower(s, cursor) ==
  IF cursor < Len(s) /\ unicodeIsLower(s[cursor + 1])
    THEN consumeLower(s, cursor + 1)
    ELSE cursor

RECURSIVE consumeDigit(_, _)
consumeDigit(s, cursor) ==
  IF cursor < Len(s) /\ unicodeIsDigit(s[cursor + 1])
    THEN consumeDigit(s, cursor + 1)
    ELSE cursor

RECURSIVE consumeUpper(_, _)
consumeUpper(s, cursor) ==
  IF cursor < Len(s) /\ unicodeIsUpper(s[cursor + 1])
    THEN consumeUpper(s, cursor + 1)
    ELSE cursor

\* a continuation byte of UTF-8 at 0-based position i of s, within lo..hi
Continuation(s, i, lo, hi) == i < Len(s) /\ s[i + 1] >= lo /\ s[i + 1] <= hi

\* the rune that "for _, r := range s" yields at 0-based position i, and its
\* width in bytes; U+FFFD, width 1, for a byte that starts no valid encoding
DecodeRune(s, i) ==
  LET b0 == s[i + 1]
      lo1 == IF b0 = 224 THEN 160 ELSE IF b0 = 240 THEN 144 ELSE 128
      hi1 == IF b0 = 237 THEN 159 ELSE IF b0 = 244 THEN 143 ELSE 191
  IN
  IF b0 < 128 THEN [r |-> b0, size |-> 1]
  ELSE IF b0 >= 194 /\ b0 <= 223 /\ Continuation(s, i + 1, 128, 191)
    THEN [r |-> (b0 % 32) * 64 + (s[i + 2] % 64), size |-> 2]
  ELSE IF /\ b0 >= 224 /\ b0 <= 239
          /\ Continuation(s, i + 1, lo1, hi1)
          /\ Continuation(s, i + 2, 128, 191)
    THEN [r |-> (b0 % 16) * 4096 + (s[i + 2] % 64) * 64 + (s[i + 3] % 64),
          size |-> 3]
  ELSE IF /\ b0 >= 240 /\ b0 <= 244
          /\ Continuation(s, i + 1, lo1, hi1)
          /\ Continuation(s, i + 2, 128, 191)
          /\ Continuation(s, i + 3, 128, 191)
    THEN [r |-> (b0 % 8) * 262144 + (s[i + 2] % 64) * 4096
                  + (s[i + 3] % 64) * 64 + (s[i + 4] % 64),
          size |-> 4]
  ELSE [r |-> 65533, size |-> 1]

\* strconv.Atoi on a run of digits returns an error: the value is out of the
\* range of int
RECURSIVE AtoiRangeErrorLoop(_, _, _)
AtoiRangeErrorLoop(s, i, val) ==
  IF i < Len(s)
    THEN IF I64MulAddTop(val, 10, s[i + 1] - 48) >= Limb \div 2
           THEN TRUE
           ELSE LET next == I64MulAdd(val, 10, s[i + 1] - 48)
                IN  IF next \in Int64 THEN AtoiRangeErrorLoop(s, i + 1, next) ELSE TRUE
    ELSE FALSE

AtoiRangeError(s) == AtoiRangeErrorLoop(s, 0, I64(0))

\* decodeSegment, modes 0 and 2: the loop over the runes of the segment
RECURSIVE decodeSegmentLoop(_, _, _, _)
decodeSegmentLoop(s, i, val, baseChar) ==
  IF i < Len(s)
    THEN LET d == DecodeRune(s, i)
             next == I64Add(I64MulAdd(val, 26, 0),
                            I64Sub(I64(d.r + 1), I64(baseChar)))
         IN  IF next \in Int64
               THEN decodeSegmentLoop(s, i + d.size, next, baseChar)
               ELSE val
    ELSE val

\* decodeSegment(s, mode): the value and the error
decodeSegment(s, mode) ==
  IF mode = 1
    THEN IF AtoiRangeError(s) THEN [val |-> I64(0), err |-> ErrInvalidFormat]
         ELSE IF I64Lt(Atoi(s), I64(1)) THEN [val |-> I64(0), err |-> ErrInvalidFormat]
         ELSE [val |-> I64Dec(Atoi(s)), err |-> Nil]
    ELSE LET baseChar == IF mode = 2 THEN 65 ELSE 97
         IN  [val |-> I64Dec(decodeSegmentLoop(s, 0, I64(0), baseChar)), err |-> Nil]

\* One iteration of AppendParse's loop, entered with cursor = start below
\* len(s): the error it returns, or Continue with the longer dst, the advanced
\* cursor and the dimension counter.
AppendParseIter(dst, s, start, dim) ==
  LET mode == dim % 3
      cursor == CASE mode = 0 -> consumeLower(s, start)
                  [] mode = 1 -> consumeDigit(s, start)
                  [] mode = 2 -> consumeUpper(s, start)
  IN  IF cursor = start
        THEN [dst |-> dst, err |-> ErrInvalidChar, cursor |-> cursor, dim |-> dim]
        ELSE LET d == decodeSegment(Slice(s, start, cursor), mode)
             IN  IF d.err # Nil
                   THEN [dst |-> dst, err |-> d.err, cursor |-> cursor, dim |-> dim]
                   ELSE [dst |-> Append(dst, d.val), err |-> Continue,
                         cursor |-> cursor, dim |-> dim + 1]

RECURSIVE AppendParseLoop(_, _, _, _)

\* the loop after an iteration that left r
AppendParseNext(s, r) ==
  IF r.err = Continue
    THEN AppendParseLoop(r.dst, s, r.cursor, r.dim)
    ELSE [dst |-> r.dst, err |-> r.err]

\* for cursor < length { ... } return dst, nil
AppendParseLoop(dst, s, cursor, dim) ==
  IF cursor < Len(s)
    THEN AppendParseNext(s, AppendParseIter(dst, s, cursor, dim))
    ELSE [dst |-> dst, err |-> Nil]

\* AppendParse(dst, s): dst with what was decoded before an error
AppendParse(dst, s) ==
  IF Len(s) = 0
    THEN [dst |-> dst, err |-> ErrEmpty]
    ELSE AppendParseLoop(dst, s, 0, 0)

\* mutant: Parse returns what AppendParse returns, with its error
SliceParse_Partial(s) ==
  IF Len(s) = 0
    THEN [val |-> << >>, isnil |-> TRUE, err |-> ErrEmpty]
    ELSE LET r == AppendParse(<< >>, s)
         IN  [val |-> r.dst, isnil |-> FALSE, err |-> r.err]

\* Parse(s) of cell.go: the indices as 64-bit ints, and whether the slice is
\* nil; dst, made by make([]int, 0, 3), is not nil
SliceParse(s) ==
  IF Len(s) = 0
    THEN [val |-> << >>, isnil |-> TRUE, err |-> ErrEmpty]
    ELSE LET r == AppendParse(<< >>, s)
         IN  IF r.err # Nil
               THEN [val |-> << >>, isnil |-> TRUE, err |-> r.err]
               ELSE [val |-> r.dst, isnil |-> FALSE, err |-> Nil]

----------------------------------------------------------------------------
(* Slice-returning variant: formatting (cell.go)                           *)

\* writeAlpha's loop: the bytes of buf[i:], built from the last one; at most
\* 14 of the 20 bytes of buf are used for a non-negative int
RECURSIVE writeAlphaLoop(_, _, _)
writeAlphaLoop(n, baseChar, buf) ==
  LET rem == I64Rem(n, 26)
      filled == << baseChar + rem[1] >> \o buf
      next == I64Dec(I64Quo(n, 26))
  IN  IF next \in Int64 /\ ~I64Neg(next)
        THEN writeAlphaLoop(next, baseChar, filled)
        ELSE filled

\* writeAlpha(sb, val, baseChar): the bytes written to sb
writeAlpha(val, baseChar) ==
  IF I64Neg(val) THEN << >> ELSE writeAlphaLoop(val, baseChar, << >>)

RECURSIVE SliceFormatLoop(_, _, _)
SliceFormatLoop(indices, dim, sb) ==
  IF dim < Len(indices)
    THEN LET val == indices[dim + 1]
             mode == dim % 3
             written ==
               IF I64Neg(val) THEN sb
               ELSE CASE mode = 0 -> sb \o writeAlpha(val, 97)
                      [] mode = 1 -> sb \o Itoa(I64Add(val, I64(1)))
                      [] mode = 2 -> sb \o writeAlpha(val, 65)
         IN  SliceFormatLoop(indices, dim + 1, written)
    ELSE sb

\* Format(indices...) of cell.go
SliceFormat(indices) ==
  IF Len(indices) = 0 THEN << >> ELSE SliceFormatLoop(indices, 0, << >>)

\* MustFormat(indices...) of cell.go: return Format(indices...)
MustFormat(indices) == SliceFormat(indices)

----------------------------------------------------------------------------
(* Inputs                                                                  *)

\* the most fragments one input string is assembled from
MaxFragments == 3

\* the longest input string, in bytes
MaxInputLen == 20

\* the most bytes outside a-z, 0-9, A-Z in one input string
MaxOtherBytes == 1

\* the caller keeps at most MaxSlices slices and writes MaxWrites times
MaxSlices == 2

MaxWrites == 1

\* runs of a-z: "a", "z", "iv" (255), "iw" (256), and a 14-letter run, whose
\* value exceeds the range of a 64-bit int
LowerFragments ==
  { <<97>>, <<122>>, <<105, 118>>, <<105, 119>>,
    <<100, 97, 97, 97, 97, 97, 97, 97, 97, 97, 97, 97, 97, 97>> }

\* runs of 0-9: "0", "1", "256", "257", and "9223372036854775808", the
\* smallest number above the range of a 64-bit int
DigitFragments ==
  { <<48>>, <<49>>, <<50, 53, 54>>, <<50, 53, 55>>,
    <<57, 50, 50, 51, 51, 55, 50, 48, 51, 54, 56, 53, 52, 55, 55, 53, 56, 48, 56>> }

\* runs of A-Z: "A", "IV" (255), "IW" (256)
UpperFragments == { <<65>>, <<73, 86>>, <<73, 87>> }

\* a lowercase run followed by a numeric run: "e4"
MixedFragments == { <<101, 52>> }

Fragments ==
  LowerFragments \cup DigitFragments \cup UpperFragments \cup MixedFragments

\* bytes outside the three classes: NUL, tab, "\n", "\r", space, "!", the
\* neighbours of the class ranges "/" ":" "@" "[" "`" "{", and 0x80, 0xE4, 0xFF
OtherBytes == { 0, 9, 10, 13, 32, 33, 47, 58, 64, 91, 96, 123, 128, 228, 255 }

IsAlnum(b) == (b >= 97 /\ b <= 122) \/ (b >= 48 /\ b <= 57) \/ (b >= 65 /\ b <= 90)

OtherCount(str) == Cardinality({ i \in 1..Len(str) : ~IsAlnum(str[i]) })

\* index values at the edges of the encoders' length classes
IndexSamples == { 0, 8, 9, 25, 26, 51, 52, 98, 99, 255 }

\* index lists given to NewCoordinate: 0 to 4 indices
IndexLists ==
  { << >> } \cup
  { << a >> : a \in 0..255 } \cup
  { << a, b >> : a \in IndexSamples, b \in 0..255 } \cup
  { << a, b >> : a \in 0..255, b \in IndexSamples } \cup
  { << a, b, d >> : a \in IndexSamples, b \in IndexSamples, d \in IndexSamples } \cup
  { << a, b, d >> : a \in {0, 255}, b \in {0, 255}, d \in 0..255 } \cup
  { << a, b, d, e >> : a \in {0, 255}, b \in {0, 255}, d \in {0, 255}, e \in {0, 255} }

\* the ints given to Format: the edges of the letter and digit length classes,
\* the two largest ints, and -1
FormatValues ==
  { I64(n) : n \in { 0, 1, 8, 9, 25, 26, 255, 701, 702 } } \cup
  { I64Dec(MaxInt64), MaxInt64, I64Dec(I64(0)) }

FormatEdges == { I64(0), I64(25), MaxInt64, I64Dec(I64(0)) }

\* the lists given to Format: 0 to 5 ints
FormatLists ==
  { << >> } \cup
  { << a >> : a \in FormatValues } \cup
  { << a, b >> : a \in FormatValues, b \in FormatValues } \cup
  { << a, b, d >> : a \in FormatEdges, b \in FormatEdges, d \in FormatEdges } \cup
  { << a, b, d, e >> : a \in FormatEdges, b \in FormatEdges, d \in FormatEdges,
                       e \in FormatEdges } \cup
  { << a, b, d, e, f >> : a \in {I64(0)}, b \in FormatEdges, d \in FormatEdges,
                          e \in FormatEdges, f \in FormatEdges }

\* the value written through a slice
WriteValues == { 99 }

\* the letter runs given to lettersToIndex: every run of 1 to 3 letters, and
\* "aaaa" and "zzzz"
LetterRuns ==
  UNION { [1..k -> 97..122] : k \in 1..3 } \cup
  { << 97, 97, 97, 97 >>, << 122, 122, 122, 122 >> }

\* the indices given to indexToLetters: those of the runs of 1 to 3 letters
\* (zzz is 18277), and those of "aaaa" and "zzzz"
CodecIndices == 0..18277 \cup { 18278, 475253 }

\* ints given to indexToLetters beyond those: the index of the last run of 13
\* letters (the sum of 26^l for l = 1..13, less 1), the next one, and the
\* largest int
WideCodecIndices ==
  { I64Dec(baseOffsetLoop(1, 14, I64(0))), baseOffsetLoop(1, 14, I64(0)), MaxInt64 }

----------------------------------------------------------------------------
(* State                                                                   *)

VARIABLES
  pc,      \* the caller's position
  s,       \* the input string
  nfrag,   \* the number of fragments s was assembled from
  from,    \* the call that produced c: "none", "Parse" or "NewCoordinate"
  c,       \* the Coordinate in hand
  err,     \* the error of the last Validate / Parse
  out,     \* the result of c.String()
  back,    \* the result of Parse(out)
  ret,     \* the result of the last accessor or predicate call
  given,   \* the indices that NewCoordinate or Format was last called with
  heap,    \* the arrays allocated by make, in the order of allocation
  held,    \* the slices returned by Indices() that the caller keeps
  nwrites  \* the number of writes the caller made through those slices

vars == << pc, s, nfrag, from, c, err, out, back, ret, given, heap, held, nwrites >>

\* the result of a call: ok is FALSE for a panic or a returned error, and the
\* value is in the field of its type (bool, int, a list of bytes or uint8, a
\* list of 64-bit ints)
Ret(op, ok, b, n, q, w) ==
  [op |-> op, ok |-> ok, bool |-> b, int |-> n, seq |-> q, wide |-> w]

RetBool(op, b) == Ret(op, TRUE, b, 0, << >>, << >>)

RetInt(op, ok, n) == Ret(op, ok, FALSE, n, << >>, << >>)

RetSeq(op, ok, q) == Ret(op, ok, FALSE, 0, q, << >>)

RetWide(op, ok, w) == Ret(op, ok, FALSE, 0, << >>, w)

NoRet == RetInt("none", TRUE, 0)

NoBack == [c |-> ZeroCoordinate, err |-> Nil, ok |-> TRUE]

Init ==
  /\ pc = "input"
  /\ s = << >>
  /\ nfrag = 0
  /\ from = "none"
  /\ c = ZeroCoordinate
  /\ err = Nil
  /\ out = << >>
  /\ back = NoBack
  /\ ret = NoRet
  /\ given = << >>
  /\ heap = << >>
  /\ held = << >>
  /\ nwrites = 0

\* the caller assembles the input string
AppendFragment(f) ==
  /\ pc = "input"
  /\ nfrag < MaxFragments
  /\ Len(s) + Len(f) <= MaxInputLen
  /\ s' = s \o f
  /\ nfrag' = nfrag + 1
  /\ UNCHANGED << pc, from, c, err, out, back, ret, given, heap, held, nwrites >>

\* the caller puts a byte outside the three classes into the input
AppendOtherByte(b) ==
  /\ pc = "input"
  /\ nfrag < MaxFragments
  /\ Len(s) + 1 <= MaxInputLen
  /\ OtherCount(s) < MaxOtherBytes
  /\ s' = Append(s, b)
  /\ nfrag' = nfrag + 1
  /\ UNCHANGED << pc, from, c, err, out, back, ret, given, heap, held, nwrites >>

CallValidate ==
  /\ pc = "input"
  /\ err' = Validate(s)
  /\ pc' = "validated"
  /\ UNCHANGED << s, nfrag, from, c, out, back, ret, given, heap, held, nwrites >>

CallIsValid ==
  /\ pc = "input"
  /\ ret' = RetBool("IsValid", IsValid(s))
  /\ pc' = "checked"
  /\ UNCHANGED << s, nfrag, from, c, err, out, back, given, heap, held, nwrites >>

CallParse ==
  /\ pc = "input"
  /\ LET r == Parse(s) IN
       /\ c' = r.c
       /\ err' = r.err
       /\ pc' = IF ~r.ok THEN "panic" ELSE IF r.err = Nil THEN "have" ELSE "failed"
  /\ from' = "Parse"
  /\ UNCHANGED << s, nfrag, out, back, ret, given, heap, held, nwrites >>

CallNewCoordinate ==
  /\ pc = "input"
  /\ s = << >>
  /\ \E indices \in IndexLists :
       LET r == NewCoordinate(indices) IN
         /\ c' = r.c
         /\ pc' = IF r.ok THEN "have" ELSE "panic"
         /\ ret' = RetSeq("NewCoordinate", r.ok, indices)
         /\ given' = indices
  /\ from' = "NewCoordinate"
  /\ UNCHANGED << s, nfrag, err, out, back, heap, held, nwrites >>

CallDims ==
  /\ pc \in {"have", "shown"}
  /\ ret' = RetInt("Dims", TRUE, Dims(c))
  /\ UNCHANGED << pc, s, nfrag, from, c, err, out, back, given, heap, held, nwrites >>

CallIndices ==
  /\ pc \in {"have", "shown"}
  /\ LET r == Indices(c) IN ret' = RetSeq("Indices", r.ok, r.val)
  /\ UNCHANGED << pc, s, nfrag, from, c, err, out, back, given, heap, held, nwrites >>

CallAt(i) ==
  /\ pc \in {"have", "shown"}
  /\ LET r == At(c, i) IN ret' = RetSeq("At", r.ok, << i, r.val >>)
  /\ UNCHANGED << pc, s, nfrag, from, c, err, out, back, given, heap, held, nwrites >>

CallString ==
  /\ pc = "have"
  /\ LET r == String(c) IN
       /\ out' = r.s
       /\ pc' = IF r.ok THEN "shown" ELSE "panic"
  /\ UNCHANGED << s, nfrag, from, c, err, back, ret, given, heap, held, nwrites >>

\* Parse applied to the string that String returned
CallParseOut ==
  /\ pc = "shown"
  /\ back' = Parse(out)
  /\ pc' = "back"
  /\ UNCHANGED << s, nfrag, from, c, err, out, ret, given, heap, held, nwrites >>

\* the regex variant's predicates on the same input
CallValid ==
  /\ pc = "input"
  /\ ret' = RetBool("Valid", Valid(s))
  /\ pc' = "checked"
  /\ UNCHANGED << s, nfrag, from, c, err, out, back, given, heap, held, nwrites >>

\* Parse of the regex variant: ret.seq is the list of the components
CallParseComponents ==
  /\ pc = "input"
  /\ \E r \in { ParseComponents(s) } :
       ret' = RetSeq("ParseComponents", r.ok, r.val)
  /\ pc' = "checked"
  /\ UNCHANGED << s, nfrag, from, c, err, out, back, given, heap, held, nwrites >>

CallDimensions ==
  /\ pc = "input"
  /\ ret' = RetInt("Dimensions", TRUE, Dimensions(s))
  /\ pc' = "checked"
  /\ UNCHANGED << s, nfrag, from, c, err, out, back, given, heap, held, nwrites >>

CallToIndices ==
  /\ pc = "input"
  /\ LET r == ToIndices(s) IN ret' = RetWide("ToIndices", r.ok, r.val)
  /\ pc' = "checked"
  /\ UNCHANGED << s, nfrag, from, c, err, out, back, given, heap, held, nwrites >>

\* the caller keeps the slice that Indices() returns
KeepIndices ==
  /\ pc \in {"have", "held"}
  /\ Len(held) < MaxSlices
  /\ c.dims <= MaxDimensions
  /\ LET r == IndicesSlice(c, heap) IN
       /\ heap' = r.heap
       /\ held' = Append(held, r.slice)
       /\ ret' = RetSeq("Indices", TRUE, r.heap[r.slice.arr])
  /\ pc' = "held"
  /\ UNCHANGED << s, nfrag, from, c, err, out, back, given, nwrites >>

\* the caller writes through a slice it keeps: held[k][i] = v
WriteSlice(k, i, v) ==
  /\ pc = "held"
  /\ nwrites < MaxWrites
  /\ k \in 1..Len(held)
  /\ i < held[k].len
  /\ heap' = [heap EXCEPT ![held[k].arr][i + 1] = v]
  /\ nwrites' = nwrites + 1
  /\ UNCHANGED << pc, s, nfrag, from, c, err, out, back, ret, given, held >>

\* the regex variant's letter codec, on a run chosen by the caller
CallLettersToIndex ==
  /\ pc = "input"
  /\ s = << >>
  /\ \E r \in LetterRuns :
       /\ s' = r
       /\ ret' = RetWide("lettersToIndex", TRUE, << lettersToIndex(r) >>)
  /\ pc' = "index"
  /\ UNCHANGED << nfrag, from, c, err, out, back, given, heap, held, nwrites >>

\* indexToLetters applied to the index that lettersToIndex returned
CallIndexToLettersBack ==
  /\ pc = "index"
  /\ out' = indexToLetters(ret.wide[1])
  /\ pc' = "reencoded"
  /\ UNCHANGED << s, nfrag, from, c, err, back, ret, given, heap, held, nwrites >>

\* the regex variant's letter codec, on an index chosen by the caller
CallIndexToLetters ==
  /\ pc = "input"
  /\ s = << >>
  /\ \E n \in CodecIndices :
       /\ out' = indexToLetters(I64(n))
       /\ ret' = RetInt("indexToLetters", TRUE, n)
  /\ pc' = "letters"
  /\ UNCHANGED << s, nfrag, from, c, err, back, given, heap, held, nwrites >>

\* indexToLetters on a large index chosen by the caller; the call may not
\* return
CallIndexToLettersWide ==
  /\ pc = "input"
  /\ s = << >>
  /\ \E n \in WideCodecIndices :
       /\ out' = indexToLetters(n)
       /\ ret' = RetWide("indexToLetters", indexToLettersHalts(n), << n >>)
       /\ pc' = IF indexToLettersHalts(n) THEN "spelled" ELSE "hung"
  /\ UNCHANGED << s, nfrag, from, c, err, back, given, heap, held, nwrites >>

\* lettersToIndex applied to the letters that indexToLetters returned
CallLettersToIndexBack ==
  /\ pc = "letters"
  /\ ret' = [ret EXCEPT !.wide = << lettersToIndex(out) >>]
  /\ pc' = "redecoded"
  /\ UNCHANGED << s, nfrag, from, c, err, out, back, given, heap, held, nwrites >>

\* Parse of the slice-returning variant on the same input
CallSliceParse ==
  /\ pc = "input"
  /\ LET r == SliceParse(s) IN
       /\ err' = r.err
       /\ ret' = Ret("SliceParse", r.err = Nil, r.isnil, 0, << >>, r.val)
  /\ pc' = "checked"
  /\ UNCHANGED << s, nfrag, from, c, out, back, given, heap, held, nwrites >>

\* Format of the slice-returning variant
CallSliceFormat ==
  /\ pc = "input"
  /\ s = << >>
  /\ \E indices \in FormatLists :
       /\ given' = indices
       /\ out' = SliceFormat(indices)
       /\ ret' = RetSeq("Format", TRUE, SliceFormat(indices))
  /\ pc' = "formatted"
  /\ UNCHANGED << s, nfrag, from, c, err, back, heap, held, nwrites >>

\* Parse of the slice-returning variant on what Format returned
CallSliceParseFormatted ==
  /\ pc = "formatted"
  /\ LET r == SliceParse(out) IN
       /\ err' = r.err
       /\ ret' = Ret("SliceParse", r.err = Nil, r.isnil, 0, << >>, r.val)
  /\ pc' = "reparsed"
  /\ UNCHANGED << s, nfrag, from, c, out, back, given, heap, held, nwrites >>

\* MustFormat on the list that Format was called with
CallMustFormat ==
  /\ pc = "formatted"
  /\ ret.op = "Format"
  /\ ret' = RetSeq("MustFormat", TRUE, MustFormat(given))
  /\ UNCHANGED << pc, s, nfrag, from, c, err, out, back, given, heap, held, nwrites >>

\* FromIndices of the regex variant on a list chosen by the caller; the call
\* may not return
CallFromIndices ==
  /\ pc = "input"
  /\ s = << >>
  /\ \E indices \in FormatLists :
       \E r \in { FromIndices(indices) } :
         /\ given' = indices
         /\ out' = r.val
         /\ ret' = Ret("FromIndices", r.ok, FALSE, 0, r.val, indices)
         /\ pc' = IF r.halts THEN "converted" ELSE "hung"
  /\ UNCHANGED << s, nfrag, from, c, err, back, heap, held, nwrites >>

\* ToIndices on the string that FromIndices returned
CallToIndicesConverted ==
  /\ pc = "converted"
  /\ ret.ok
  /\ LET r == ToIndices(out) IN ret' = RetWide("ToIndices", r.ok, r.val)
  /\ pc' = "reconverted"
  /\ UNCHANGED << s, nfrag, from, c, err, out, back, given, heap, held, nwrites >>

\* FromIndices on the indices that ToIndices returned for the input
CallFromIndicesBack ==
  /\ pc = "checked"
  /\ ret.op = "ToIndices"
  /\ ret.ok
  /\ \E r \in { FromIndices(ret.wide) } :
       /\ out' = r.val
       /\ ret' = Ret("FromIndices", r.ok, FALSE, 0, r.val, ret.wide)
       /\ pc' = IF r.halts THEN "restored" ELSE "hung"
  /\ UNCHANGED << s, nfrag, from, c, err, back, given, heap, held, nwrites >>

Next ==
  \/ \E f \in Fragments : AppendFragment(f)
  \/ \E b \in OtherBytes : AppendOtherByte(b)
  \/ CallValidate
  \/ CallIsValid
  \/ CallParse
  \/ CallNewCoordinate
  \/ CallDims
  \/ CallIndices
  \/ \E i \in -1..MaxDimensions : CallAt(i)
  \/ CallString
  \/ CallParseOut
  \/ CallValid
  \/ CallParseComponents
  \/ CallDimensions
  \/ CallToIndices
  \/ CallFromIndices
  \/ CallToIndicesConverted
  \/ CallFromIndicesBack
  \/ CallSliceParse
  \/ CallSliceFormat
  \/ CallMustFormat
  \/ CallSliceParseFormatted
  \/ KeepIndices
  \/ CallLettersToIndex
  \/ CallIndexToLettersBack
  \/ CallIndexToLetters
  \/ CallIndexToLettersWide
  \/ CallLettersToIndexBack
  \/ \E k \in 1..MaxSlices, i \in 0..(MaxDimensions - 1), v \in WriteValues :
       WriteSlice(k, i, v)

Spec == Init /\ [][Next]_vars

----------------------------------------------------------------------------
(* Round trips                                                             *)

\* C1: every string that Validate accepts is parsed without error or panic,
\* and the String() of the parsed Coordinate is that string again.
C1_StringRoundTrip ==
  /\ (from = "Parse" /\ Validate(s) = Nil) => pc \in {"have", "held", "shown", "back"}
  /\ (from = "Parse" /\ pc \in {"shown", "back"}) => out = s

\* "iv256IV" was parsed and printed back
C1_Witness ==
  /\ from = "Parse"
  /\ pc = "shown"
  /\ s = << 105, 118, 50, 53, 54, 73, 86 >>
  /\ out = s

\* C2: every Coordinate built by NewCoordinate from 1 to 3 indices of 0..255
\* is printed without panic, and Parse of the printed string returns no
\* error and an equal Coordinate.
C2_CoordinateRoundTrip ==
  /\ (from = "NewCoordinate" /\ ret.op = "NewCoordinate" /\ Len(ret.seq) \in 1..3)
       => pc # "panic"
  /\ (from = "NewCoordinate" /\ pc = "back")
       => (back.ok /\ back.err = Nil /\ back.c = c)

\* NewCoordinate(255, 98, 26) went through String and Parse
C2_Witness ==
  /\ from = "NewCoordinate"
  /\ pc = "back"
  /\ c = [indices |-> << 255, 98, 26 >>, dims |-> 3]
  /\ out = << 105, 118, 57, 57, 65, 65 >>
  /\ back.c = c

----------------------------------------------------------------------------
(* The grammar, as the claims state it                                     *)

LowerSet == 97..122

DigitSet == 48..57

UpperSet == 65..90

\* the end of the maximal run of bytes of class S in str after position p
RunEnd(str, p, S) ==
  CHOOSE k \in p..Len(str) :
    /\ \A i \in (p + 1)..k : str[i] \in S
    /\ k = Len(str) \/ str[k + 1] \notin S

End1(str) == RunEnd(str, 0, LowerSet)

End2(str) == RunEnd(str, End1(str), DigitSet)

End3(str) == RunEnd(str, End2(str), UpperSet)

Run1(str) == SubSeq(str, 1, End1(str))

Run2(str) == SubSeq(str, End1(str) + 1, End2(str))

Run3(str) == SubSeq(str, End2(str) + 1, End3(str))

\* a non-empty letter run whose bijective base-26 value is at most 255
\* (every run of three letters or more is worth at least 702)
LetterRunInRange(run, base) ==
  \/ Len(run) = 1
  \/ Len(run) = 2 /\ 26 * (run[1] - base + 1) + (run[2] - base + 1) - 1 <= 255

\* a non-empty digit run without leading zero whose value minus 1 is at
\* most 255 (every such run of four digits or more is worth at least 1000)
DigitRunInRange(run) ==
  /\ Len(run) \in 1..3
  /\ run[1] # 48
  /\ \/ Len(run) < 3
     \/ 100 * (run[1] - 48) + 10 * (run[2] - 48) + (run[3] - 48) - 1 <= 255

\* ^[a-z]+([1-9][0-9]*([A-Z]+)?)?$ with every run in range
GrammarValid(str) ==
  /\ LetterRunInRange(Run1(str), 97)
  /\ \/ End1(str) = Len(str)
     \/ /\ DigitRunInRange(Run2(str))
        /\ \/ End2(str) = Len(str)
           \/ LetterRunInRange(Run3(str), 65) /\ End3(str) = Len(str)

----------------------------------------------------------------------------
(* Validity                                                                *)

\* the regex variant's view: valid, at most three dimensions, no index
\* above 255
RegexBounded(str) ==
  /\ Valid(str)
  /\ Dimensions(str) <= 3
  /\ \A i \in 1..Len(ToIndices(str).val) : ~I64Gt(ToIndices(str).val[i], 255)

\* C3: IsValid(s) holds exactly when the regex variant finds s valid, with
\* at most three dimensions and every index of ToIndices(s) at most 255.
C3_IsValidIffRegexBounded ==
  (pc = "checked" /\ ret.op = "IsValid") => (ret.bool <=> RegexBounded(s))

\* IsValid agrees with the grammar restricted to three runs in range
IsValidIffGrammar ==
  (pc = "checked" /\ ret.op = "IsValid") => (ret.bool <=> GrammarValid(s))

\* C4: a string with a byte outside a-z, 0-9, A-Z, at any position, is
\* rejected by Validate, IsValid and Parse and by the regex variant's Valid.
C4_ForeignByteRejected ==
  OtherCount(s) > 0 =>
    /\ pc = "validated" => err # Nil
    /\ (pc = "checked" /\ ret.op \in {"IsValid", "Valid"}) => ~ret.bool
    /\ from = "Parse" => (pc = "failed" /\ err # Nil)

\* Validate was called on "e4\n"
C4_Witness ==
  /\ pc = "validated"
  /\ s = << 101, 52, 10 >>
  /\ err = ErrUnexpectedChar

----------------------------------------------------------------------------
(* The Coordinate value                                                    *)

HaveCoordinate == pc \in {"have", "shown", "back"}

\* what Dims, Indices and At may return for a Coordinate in hand
CoordinateOK ==
  /\ Dims(c) \in 1..3
  /\ Indices(c).ok
  /\ Len(Indices(c).val) = Dims(c)
  /\ \A i \in 1..Len(Indices(c).val) : Indices(c).val[i] \in 0..255
  /\ ret.op = "Dims" => ret.int \in 1..3
  /\ ret.op = "Indices" => (ret.ok /\ Len(ret.seq) = c.dims)

\* C5: a Coordinate from a NewCoordinate call that did not panic or a Parse
\* call that returned no error has 1 to 3 dimensions, as many indices as
\* dimensions, every index at most 255, and no Dims, Indices, At or String
\* call changes it.
C5_CoordinateInvariant ==
  /\ [](HaveCoordinate => CoordinateOK)
  /\ [][HaveCoordinate => c' = c]_vars

\* Indices() of the parsed "iv256IV", after String()
C5_Witness ==
  /\ from = "Parse"
  /\ pc = "shown"
  /\ ret.op = "Indices"
  /\ ret.seq = << 255, 255, 255 >>

----------------------------------------------------------------------------
(* The errors of Validate                                                  *)

\* C6: Validate returns ErrEmptyInput for the empty string, ErrInputTooLong
\* for every string of more than 7 bytes whatever its bytes, and
\* ErrInvalidStart for every string of 1 to 7 bytes whose first byte is not
\* in a-z.
C6_WholeStringChecks ==
  pc = "validated" =>
    /\ Len(s) = 0 => err = ErrEmptyInput
    /\ Len(s) > 7 => err = ErrInputTooLong
    /\ (Len(s) \in 1..7 /\ s[1] \notin LowerSet) => err = ErrInvalidStart

\* Validate was called on a string of more than 7 bytes that starts with a
\* digit and holds a foreign byte
C6_Witness ==
  /\ pc = "validated"
  /\ Len(s) > 7
  /\ s[1] \in DigitSet
  /\ OtherCount(s) = 1
  /\ err = ErrInputTooLong

\* the first run is lowercase letters and the byte after it is "0"
LowerThenZero(str) ==
  /\ End1(str) >= 1
  /\ End1(str) < Len(str)
  /\ str[End1(str) + 1] = 48

\* C7: Validate returns ErrLeadingZero for every string of at most 7 bytes
\* whose lowercase run is in range and is followed by "0", whatever comes
\* after; no string whose numeric run starts with "0" is accepted.
C7_LeadingZero ==
  LowerThenZero(s) =>
    /\ (pc = "validated" /\ Len(s) <= 7 /\ LetterRunInRange(Run1(s), 97))
         => err = ErrLeadingZero
    /\ pc = "validated" => err # Nil
    /\ (pc = "checked" /\ ret.op = "IsValid") => ~ret.bool
    /\ from = "Parse" => pc = "failed"

\* Validate was called on "a01"
C7_Witness ==
  /\ pc = "validated"
  /\ s = << 97, 48, 49 >>
  /\ err = ErrLeadingZero

\* three runs, each well formed and in range, and at least one more byte
ThreeRunsAndMore(str) ==
  /\ End1(str) >= 1
  /\ LetterRunInRange(Run1(str), 97)
  /\ End2(str) > End1(str)
  /\ DigitRunInRange(Run2(str))
  /\ End3(str) > End2(str)
  /\ LetterRunInRange(Run3(str), 65)
  /\ End3(str) < Len(str)

\* C8: Validate returns ErrTooManyDims for every string of at most 7 bytes
\* that starts with three well-formed runs in range and goes on, whatever
\* the next byte is.
C8_TooManyDims ==
  (pc = "validated" /\ Len(s) <= 7 /\ ThreeRunsAndMore(s)) => err = ErrTooManyDims

\* Validate was called on "e4A!"
C8_Witness ==
  /\ pc = "validated"
  /\ s = << 101, 52, 65, 33 >>
  /\ err = ErrTooManyDims

\* the first run that is out of range comes after runs that are well formed
\* and in range
OutOfRangeRun(str) ==
  /\ End1(str) >= 1
  /\ \/ ~LetterRunInRange(Run1(str), 97)
     \/ /\ LetterRunInRange(Run1(str), 97)
        /\ End2(str) > End1(str)
        /\ Run2(str)[1] # 48
        /\ \/ ~DigitRunInRange(Run2(str))
           \/ /\ DigitRunInRange(Run2(str))
              /\ End3(str) > End2(str)
              /\ ~LetterRunInRange(Run3(str), 65)

\* C9: when Validate scans a string (1 to 7 bytes, first byte in a-z) in
\* which a run decodes to more than 255 and the runs before it are well
\* formed and in range, it returns ErrIndexOutOfRange, whatever bytes follow
\* that run.
C9_IndexOutOfRange ==
  (pc = "validated" /\ Len(s) <= 7 /\ OutOfRangeRun(s)) => err = ErrIndexOutOfRange

\* Validate was called on "iw0": the run "iw" is worth 256, a "0" follows
C9_Witness ==
  /\ pc = "validated"
  /\ s = << 105, 119, 48 >>
  /\ err = ErrIndexOutOfRange

\* the byte at the start of the 2nd or 3rd dimension is not of its class,
\* after runs that are well formed and in range
UnexpectedAtRunStart(str) ==
  /\ End1(str) >= 1
  /\ LetterRunInRange(Run1(str), 97)
  /\ \/ End1(str) < Len(str) /\ str[End1(str) + 1] \notin DigitSet
     \/ /\ End2(str) > End1(str)
        /\ DigitRunInRange(Run2(str))
        /\ End2(str) < Len(str)
        /\ str[End2(str) + 1] \notin UpperSet

\* C10: Validate returns ErrUnexpectedChar exactly when the scan of a string
\* (1 to 7 bytes) reaches the start of the 2nd or 3rd dimension after runs
\* that are well formed and in range and the byte there is not of the
\* expected class (nor "0" for the numeric dimension).
C10_UnexpectedChar ==
  pc = "validated" =>
    (err = ErrUnexpectedChar <=> (Len(s) <= 7 /\ UnexpectedAtRunStart(s)))

\* Validate was called on "e4a": a lowercase letter where the uppercase run
\* should start
C10_Witness ==
  /\ pc = "validated"
  /\ s = << 101, 52, 97 >>
  /\ err = ErrUnexpectedChar

----------------------------------------------------------------------------
(* Agreement of Parse, Validate and IsValid                                *)

\* C11: on every string Parse returns the error that Validate returns,
\* IsValid is TRUE exactly when Validate returns nil, and the Coordinate
\* that comes with an error of Parse is the zero value: Dims() is 0,
\* Indices() is empty and String() is "".
C11_ParseValidateAgree ==
  /\ (from = "Parse" /\ pc \in {"have", "failed"}) => err = Validate(s)
  /\ (pc = "checked" /\ ret.op = "IsValid") => (ret.bool <=> (Validate(s) = Nil))
  /\ pc = "failed" =>
       /\ err # Nil
       /\ c = ZeroCoordinate
       /\ Dims(c) = 0
       /\ Indices(c) = [val |-> << >>, ok |-> TRUE]
       /\ String(c) = [s |-> << >>, ok |-> TRUE]

\* Parse failed on "iv256IW": two runs were in range before the error
C11_Witness ==
  /\ from = "Parse"
  /\ pc = "failed"
  /\ s = << 105, 118, 50, 53, 54, 73, 87 >>
  /\ err = ErrIndexOutOfRange
  /\ c = ZeroCoordinate

----------------------------------------------------------------------------
(* Construction and accessors                                              *)

LetterValue(run, base) ==
  IF Len(run) = 1
    THEN run[1] - base
    ELSE 26 * (run[1] - base + 1) + (run[2] - base + 1) - 1

\* the decimal value of a run of one to three digits, minus 1
DigitValue(run) ==
  CASE Len(run) = 1 -> (run[1] - 48) - 1
    [] Len(run) = 2 -> 10 * (run[1] - 48) + (run[2] - 48) - 1
    [] Len(run) = 3 -> 100 * (run[1] - 48) + 10 * (run[2] - 48) + (run[3] - 48) - 1

\* the index that the i-th run of a valid string stands for
ExpectedIndex(str, i) ==
  CASE i = 0 -> LetterValue(Run1(str), 97)
    [] i = 1 -> DigitValue(Run2(str))
    [] i = 2 -> LetterValue(Run3(str), 65)

\* C13: At(i) panics exactly when i < 0 or i >= Dims(); otherwise it returns
\* the i-th index given to NewCoordinate, or the index that the i-th run of
\* the string given to Parse stands for.
C13_AtRange ==
  ret.op = "At" =>
    LET i == ret.seq[1] IN
    /\ ~ret.ok <=> (i < 0 \/ i >= Dims(c))
    /\ (ret.ok /\ from = "NewCoordinate") => ret.seq[2] = given[i + 1]
    /\ (ret.ok /\ from = "Parse") => ret.seq[2] = ExpectedIndex(s, i)

\* At(2) panicked on the 2-dimensional NewCoordinate(255, 255)
C13_Witness ==
  /\ from = "NewCoordinate"
  /\ given = << 255, 255 >>
  /\ Dims(c) = 2
  /\ ret = RetSeq("At", FALSE, << 2, 0 >>)

\* the Coordinate as it was returned by NewCoordinate or Parse
Original == IF from = "NewCoordinate" THEN NewCoordinate(given).c ELSE Parse(s).c

\* C14: the slices that Indices() returns are copies of their own: whatever
\* the caller wrote through the slices it keeps, Dims(), Indices(), At(i)
\* and String() of the Coordinate give what they gave before, and no two
\* slices returned by separate calls refer to the same array.
C14_IndicesOwnedCopy ==
  pc = "held" =>
    /\ Dims(c) = Dims(Original)
    /\ Indices(c) = Indices(Original)
    /\ \A i \in 0..(MaxDimensions - 1) : At(c, i) = At(Original, i)
    /\ String(c) = String(Original)
    /\ ret.op = "Indices" /\ ret.seq = Indices(Original).val
    /\ \A j, k \in 1..Len(held) : j # k => held[j].arr # held[k].arr

\* two slices of NewCoordinate(0, 255, 3) are kept and 99 was written to
\* the first element of the first one
C14_Witness ==
  /\ pc = "held"
  /\ given = << 0, 255, 3 >>
  /\ Len(held) = 2
  /\ nwrites = 1
  /\ heap[held[1].arr] = << 99, 255, 3 >>
  /\ heap[held[2].arr] = << 0, 255, 3 >>
  /\ At(c, 0) = [val |-> 0, ok |-> TRUE]

\* the lists and strings of the Coordinates that c is compared with:
\* (4, 3), (4, 4), (0), (0, 0), (0, 0, 0), (255, 255), (255, 255, 255) and
\* "e4", "a", "a1", "a1A", "iv256", "iv256IV"
CompareLists ==
  { << 4, 3 >>, << 4, 4 >>, << 0 >>, << 0, 0 >>, << 0, 0, 0 >>,
    << 255, 255 >>, << 255, 255, 255 >> }

CompareStrings ==
  { << 101, 52 >>, << 97 >>, << 97, 49 >>, << 97, 49, 65 >>,
    << 105, 118, 50, 53, 54 >>, << 105, 118, 50, 53, 54, 73, 86 >> }

Comparands ==
  { NewCoordinate(l).c : l \in CompareLists } \cup
  { Parse(str).c : str \in CompareStrings }

\* C15: a Coordinate just returned by NewCoordinate or by a successful Parse
\* is == to another such Coordinate exactly when both have the same Dims()
\* and the same Indices().
C15_StructuralEquality ==
  (pc = "have" /\ ret.op \in {"NewCoordinate", "none"}) =>
    \A b \in Comparands :
      CoordinateEq(c, b) <=> (Dims(c) = Dims(b) /\ Indices(c) = Indices(b))

\* the parsed "e4" is in hand: it equals NewCoordinate(4, 3), and differs
\* from NewCoordinate(4, 4)
C15_Witness ==
  /\ from = "Parse"
  /\ pc = "have"
  /\ s = << 101, 52 >>
  /\ CoordinateEq(c, NewCoordinate(<< 4, 3 >>).c)
  /\ ~CoordinateEq(c, NewCoordinate(<< 4, 4 >>).c)

----------------------------------------------------------------------------
(* The encoder                                                             *)

\* all three runs of c have the largest width: two letters, three digits,
\* two letters
MaximalWidths ==
  /\ Dims(c) = 3
  /\ c.indices[1] >= 26
  /\ c.indices[2] >= 99
  /\ c.indices[3] >= 26

\* C16: String() of a Coordinate with 1 to 3 dimensions and indices in
\* 0..255 does not panic (no write falls outside the 7-byte buffer), and
\* the string it returns has at least Dims() and at most 7 bytes, 7 only
\* when every run has its largest width.
C16_EncoderTotal ==
  /\ pc = "panic" => (from = "NewCoordinate" /\ Len(given) \notin 1..MaxDimensions)
  /\ pc \in {"have", "held"} => String(c).ok
  /\ pc \in {"shown", "back"} =>
       /\ Len(out) >= Dims(c)
       /\ Len(out) <= MaxStringLen
       /\ Len(out) = MaxStringLen <=> MaximalWidths

\* String() of NewCoordinate(255, 255, 255) returned the 7 bytes "iv256IV"
C16_Witness ==
  /\ from = "NewCoordinate"
  /\ given = << 255, 255, 255 >>
  /\ pc = "shown"
  /\ out = << 105, 118, 50, 53, 54, 73, 86 >>

----------------------------------------------------------------------------
(* The letter codec                                                        *)

\* the bytes that encodeLower and encodeUpper write for the index n
EncodedLower(n) ==
  LET e == encodeLower(ZeroBuf, 0, n) IN SubSeq(e.buf.bytes, 1, e.n)

EncodedUpper(n) ==
  LET e == encodeUpper(ZeroBuf, 0, n) IN SubSeq(e.buf.bytes, 1, e.n)

\* the run with every letter in upper case
UpperOf(run) == [i \in 1..Len(run) |-> run[i] - 32]

\* a->0, z->25, aa->26, az->51, ba->52, iv->255, zz->701, aaa->702
KnownLetters ==
  { [letters |-> << 97 >>, index |-> 0],
    [letters |-> << 122 >>, index |-> 25],
    [letters |-> << 97, 97 >>, index |-> 26],
    [letters |-> << 97, 122 >>, index |-> 51],
    [letters |-> << 98, 97 >>, index |-> 52],
    [letters |-> << 105, 118 >>, index |-> 255],
    [letters |-> << 122, 122 >>, index |-> 701],
    [letters |-> << 97, 97, 97 >>, index |-> 702] }

\* C17: the letter codec is a bijection.  lettersToIndex(indexToLetters(n))
\* is n for every index n of a run of 1 to 3 letters, and
\* indexToLetters(lettersToIndex(r)) is r for every such run r; decodeLower
\* and decodeUpper undo encodeLower and encodeUpper on 0..255, and the
\* encoders undo the decoders on the runs worth at most 255; a is 0, z 25,
\* aa 26, az 51, ba 52, iv 255, zz 701 and aaa 702.
C17_LetterCodecBijection ==
  /\ pc = "redecoded" => ret.wide[1] = I64(ret.int)
  /\ pc = "reencoded" => out = s
  /\ \A p \in KnownLetters :
       /\ (pc = "index" /\ s = p.letters) => ret.wide[1] = I64(p.index)
       /\ (pc = "letters" /\ ret.int = p.index) => out = p.letters
       /\ (pc = "index" /\ s = p.letters /\ p.index <= MaxIndex) =>
            /\ decodeLower(s) = I64(p.index)
            /\ decodeUpper(UpperOf(s)) = I64(p.index)
  /\ (pc = "letters" /\ ret.int <= MaxIndex) =>
       /\ decodeLower(EncodedLower(ret.int)) = I64(ret.int)
       /\ decodeUpper(EncodedUpper(ret.int)) = I64(ret.int)
       /\ EncodedLower(ret.int) = out
       /\ EncodedUpper(ret.int) = UpperOf(out)
  /\ (pc = "index" /\ ~I64Gt(ret.wide[1], MaxIndex)) =>
       /\ EncodedLower(I64ToUint8(decodeLower(s))) = s
       /\ EncodedUpper(I64ToUint8(decodeUpper(UpperOf(s)))) = UpperOf(s)

\* indexToLetters(18277) returned "zzz" and lettersToIndex gave 18277 back
C17_Witness ==
  /\ pc = "redecoded"
  /\ ret.int = 18277
  /\ out = << 122, 122, 122 >>
  /\ ret.wide = << I64(18277) >>

----------------------------------------------------------------------------
(* The decimal codec                                                       *)

\* the ordinary decimal rendering of n, for 1 <= n <= 999
Decimal(n) ==
  IF n < 10 THEN << 48 + n >>
  ELSE IF n < 100 THEN << 48 + (n \div 10), 48 + (n % 10) >>
  ELSE << 48 + (n \div 100), 48 + ((n \div 10) % 10), 48 + (n % 10) >>

\* "1"->0, "9"->8, "10"->9, "99"->98, "100"->99, "256"->255
KnownDigits ==
  { [digits |-> << 49 >>, index |-> 0],
    [digits |-> << 57 >>, index |-> 8],
    [digits |-> << 49, 48 >>, index |-> 9],
    [digits |-> << 57, 57 >>, index |-> 98],
    [digits |-> << 49, 48, 48 >>, index |-> 99],
    [digits |-> << 50, 53, 54 >>, index |-> 255] }

\* the numeric run of a parsed string, of a printed Coordinate
ParsedDigits == Run2(s)

PrintedDigits == Run2(out)

\* C18: a numeric run without leading zero is decoded to its decimal value
\* minus 1, and the index v of the numeric dimension is printed as the
\* ordinary decimal of v + 1, without leading zero and 1 to 3 digits long;
\* decoding the printed run gives v again, and printing the decoded run
\* gives the run again.
C18_DecimalOneIndexed ==
  /\ (from = "Parse" /\ pc = "have" /\ Dims(c) >= 2) =>
       /\ ParsedDigits[1] # 48
       /\ decodeDigit(ParsedDigits) = I64(DigitValue(ParsedDigits))
       /\ c.indices[2] = DigitValue(ParsedDigits)
  /\ (from = "Parse" /\ pc = "shown" /\ Dims(c) >= 2) => PrintedDigits = ParsedDigits
  /\ (from = "NewCoordinate" /\ pc \in {"shown", "back"} /\ Len(given) >= 2) =>
       /\ PrintedDigits = Decimal(given[2] + 1)
       /\ PrintedDigits[1] # 48
       /\ Len(PrintedDigits) \in 1..3
       /\ decodeDigit(PrintedDigits) = I64(given[2])
       /\ \A p \in KnownDigits :
            /\ given[2] = p.index => PrintedDigits = p.digits
            /\ decodeDigit(p.digits) = I64(p.index)
  /\ (from = "NewCoordinate" /\ pc = "back" /\ Len(given) >= 2) =>
       (back.err = Nil /\ back.c.indices[2] = given[2])

\* NewCoordinate(0, 99) was printed as "a100" and parsed back
C18_Witness ==
  /\ from = "NewCoordinate"
  /\ pc = "back"
  /\ given = << 0, 99 >>
  /\ out = << 97, 49, 48, 48 >>
  /\ back.c.indices[2] = 99

----------------------------------------------------------------------------
(* Slice-returning variant                                                 *)

\* a numeric run of str starts with "0"
ZeroLedRun(str) ==
  \E i \in 1..Len(str) :
    /\ str[i] = 48
    /\ i = 1 \/ str[i - 1] \notin DigitSet

\* C19: Parse of the slice-returning variant returns an error, and no
\* indices, for every string in which a numeric run starts with "0".
C19_LeadingZeroRejected ==
  (pc = "checked" /\ ret.op = "SliceParse" /\ ZeroLedRun(s)) =>
    (err # Nil /\ ret.wide = << >>)

\* a numeric run that is worth 0 is rejected with ErrInvalidFormat when the
\* scan reaches it
ZeroValueRejected ==
  (pc = "checked" /\ ret.op = "SliceParse" /\ End1(s) >= 1 /\ End2(s) > End1(s)
     /\ \A i \in (End1(s) + 1)..End2(s) : s[i] = 48)
    => err = ErrInvalidFormat

NonNegative(indices) == \A i \in 1..Len(indices) : ~I64Neg(indices[i])

\* C20: for every non-empty list of non-negative ints, of any length, Parse
\* of what Format returns for the list returns a nil error and the list.
C20_FormatParseRoundTrip ==
  (pc = "reparsed" /\ Len(given) > 0 /\ NonNegative(given)) =>
    (err = Nil /\ ret.wide = given)

\* the round trip holds when no int at a digit position is the largest int
RoundTripBelowMaxInt ==
  (/\ pc = "reparsed"
   /\ Len(given) > 0
   /\ NonNegative(given)
   /\ \A i \in 1..Len(given) : (i - 1) % 3 = 1 => given[i] # MaxInt64)
    => (err = Nil /\ ret.wide = given)

\* C21: Parse of the slice-returning variant returns a nil slice with every
\* non-nil error, and a slice that is not nil with a nil error; a rejected
\* input never yields the indices that AppendParse had appended.
C21_NilSliceOnError ==
  (pc \in {"checked", "reparsed"} /\ ret.op = "SliceParse") =>
    /\ ret.ok <=> err = Nil
    /\ err # Nil => (ret.bool /\ ret.wide = << >>)
    /\ err = Nil => (~ret.bool /\ Len(ret.wide) >= 1)

\* Parse("a1a") returned nil and ErrInvalidChar after AppendParse had appended
\* the indices 0 and 0
C21_Witness ==
  /\ pc = "checked"
  /\ s = << 97, 49, 97 >>
  /\ err = ErrInvalidChar
  /\ ret.bool
  /\ AppendParse(<< >>, s).dst = << I64(0), I64(0) >>

----------------------------------------------------------------------------
(* Regex variant: round trips                                              *)

\* FromIndices(ToIndices(s)) returns s and no error for every valid s
RestoresString ==
  (pc \in {"restored", "hung"} /\ s # << >>) =>
    (pc = "restored" /\ ret.ok /\ out = s)

\* FromIndices(xs) succeeds for every non-empty list xs of non-negative ints
ConvertsList ==
  (pc \in {"converted", "hung"} /\ s = << >> /\ Len(given) > 0 /\ NonNegative(given)) =>
    (pc = "converted" /\ ret.ok)

\* ToIndices(FromIndices(xs)) returns xs
RestoresList ==
  (pc = "reconverted" /\ NonNegative(given)) => (ret.ok /\ ret.wide = given)

\* C22: ToIndices and FromIndices of the regex variant are mutual inverses:
\* FromIndices(ToIndices(s)) is s, without error, for every valid string s;
\* for every non-empty list xs of non-negative ints FromIndices(xs) succeeds
\* and ToIndices(FromIndices(xs)) is xs.
C22_IndicesRoundTrip == RestoresString /\ ConvertsList /\ RestoresList

----------------------------------------------------------------------------
(* Slice-returning variant: the accepted strings                           *)

\* C23: every string that Parse of the slice-returning variant accepts is
\* made of the ASCII bytes a-z, 0-9 and A-Z only, and every string with a
\* byte >= 0x80 is rejected with ErrInvalidChar.
C23_AsciiOnly ==
  (pc = "checked" /\ ret.op = "SliceParse") =>
    /\ err = Nil => \A i \in 1..Len(s) : IsAlnum(s[i])
    /\ (\E i \in 1..Len(s) : s[i] >= 128) => err = ErrInvalidChar

\* a byte that is no letter of Latin-1 is rejected wherever the scan meets it
NonLetterRejected ==
  (pc = "checked" /\ ret.op = "SliceParse" /\ err = Nil) =>
    \A i \in 1..Len(s) :
      unicodeIsLower(s[i]) \/ unicodeIsDigit(s[i]) \/ unicodeIsUpper(s[i])

----------------------------------------------------------------------------
(* The three decoders                                                      *)

\* Indices() of the Coordinate r, as ints
WideIndices(r) == [i \in 1..Dims(r) |-> I64(Indices(r).val[i])]

\* C24: on every string that the bounded Validate accepts, the bounded
\* Parse(s).Indices(), ToIndices(s) of the regex variant and Parse(s) of the
\* slice-returning variant are the same list; on every string with Valid(s),
\* Parse(s) of the slice-returning variant is ToIndices(s).
C24_DecodersAgree ==
  (pc = "checked" /\ ret.op = "ToIndices") =>
    /\ Validate(s) = Nil =>
         /\ ret.ok
         /\ ret.wide = WideIndices(Parse(s).c)
         /\ SliceParse(s).err = Nil
         /\ SliceParse(s).val = ret.wide
    /\ ret.ok => (SliceParse(s).err = Nil /\ SliceParse(s).val = ret.wide)

\* the decoders agree on the strings that the bounded Validate accepts
AgreeOnBounded ==
  (pc = "checked" /\ ret.op = "ToIndices" /\ Validate(s) = Nil) =>
    /\ ret.ok
    /\ ret.wide = WideIndices(Parse(s).c)
    /\ SliceParse(s).err = Nil
    /\ SliceParse(s).val = ret.wide

\* on valid strings, the slice-returning Parse fails only where a numeric run
\* is out of the range of int, and otherwise returns what ToIndices returns
AgreeWithinInt ==
  (pc = "checked" /\ ret.op = "ToIndices" /\ ret.ok) =>
    IF SliceParse(s).err = Nil
      THEN SliceParse(s).val = ret.wide
      ELSE /\ SliceParse(s).err = ErrInvalidFormat
           /\ \E i \in 1..Len(ret.wide) : ret.wide[i] = I64Dec(MaxInt64)

----------------------------------------------------------------------------
(* The two formulations of index -> letters                                *)

\* indexToLetters(n) of the regex variant, writeAlpha(n, 'a') of the
\* slice-returning variant and, up to 255, encodeLower(n) are one string for
\* the indices 0..18277, "aaaa" and "zzzz"; the uppercase forms are that
\* string in upper case
SameLettersSmall ==
  (pc = "letters" /\ ret.op = "indexToLetters") =>
    /\ out = writeAlpha(I64(ret.int), 97)
    /\ ToUpper(out) = writeAlpha(I64(ret.int), 65)
    /\ ret.int <= MaxIndex =>
         /\ out = EncodedLower(ret.int)
         /\ ToUpper(out) = EncodedUpper(ret.int)

\* indexToLetters(n) returns, and returns writeAlpha(n, 'a'), for the large
\* indices
SameLettersWide ==
  (pc \in {"spelled", "hung"} /\ ret.op = "indexToLetters") =>
    /\ pc = "spelled"
    /\ out = writeAlpha(ret.wide[1], 97)
    /\ ToUpper(out) = writeAlpha(ret.wide[1], 65)

\* C25: for every index n >= 0, indexToLetters(n) is writeAlpha(n, 'a'); for
\* n in 0..255 both are encodeLower(n); the uppercase forms are the same
\* strings in upper case.
C25_SameLetters == SameLettersSmall /\ SameLettersWide

----------------------------------------------------------------------------
(* Regex variant: the scanner                                              *)

\* the class of dimension i (1-indexed)
ClassOfDimension(i) ==
  CASE i % 3 = 1 -> LowerSet
    [] i % 3 = 2 -> DigitSet
    [] OTHER -> UpperSet

RECURSIVE Concatenation(_)
Concatenation(parts) ==
  IF parts = << >> THEN << >> ELSE Head(parts) \o Concatenation(Tail(parts))

\* the number of bytes before component i
RECURSIVE Offset(_, _)
Offset(parts, i) == IF i = 1 THEN 0 ELSE Offset(parts, i - 1) + Len(parts[i - 1])

\* the number of maximal runs of one class in a string of a-z, 0-9, A-Z
ClassOf(b) == IF b \in LowerSet THEN 0 ELSE IF b \in DigitSet THEN 1 ELSE 2

CountRuns(str) ==
  IF str = << >> THEN 0
  ELSE 1 + Cardinality({ i \in 1..(Len(str) - 1) : ClassOf(str[i]) # ClassOf(str[i + 1]) })

\* C26: for every valid string, Parse of the regex variant returns non-empty
\* components whose concatenation is the string; component i holds only
\* characters of the class of dimension i and the character after it, if any,
\* is not of that class; Dimensions is the number of components for a valid
\* string and 0 for an invalid one.
C26_ScannerComponents ==
  /\ (pc = "checked" /\ ret.op = "ParseComponents") =>
       /\ ret.ok <=> Valid(s)
       /\ ~ret.ok => ret.seq = << >>
       /\ ret.ok =>
            /\ Len(ret.seq) >= 1
            /\ Concatenation(ret.seq) = s
            /\ Len(ret.seq) = CountRuns(s)
            /\ \A i \in 1..Len(ret.seq) :
                 /\ Len(ret.seq[i]) >= 1
                 /\ \A k \in 1..Len(ret.seq[i]) : ret.seq[i][k] \in ClassOfDimension(i)
                 /\ LET after == Offset(ret.seq, i) + Len(ret.seq[i]) + 1
                    IN  after <= Len(s) => s[after] \notin ClassOfDimension(i)
  /\ (pc = "checked" /\ ret.op = "Dimensions") =>
       ret.int = IF Valid(s) THEN CountRuns(s) ELSE 0

\* Parse("e4Aa") returned the four components "e", "4", "A", "a"
C26_Witness ==
  /\ pc = "checked"
  /\ ret.op = "ParseComponents"
  /\ s = << 101, 52, 65, 97 >>
  /\ ret.seq = << <<101>>, <<52>>, <<65>>, <<97>> >>

----------------------------------------------------------------------------
(* Progress and termination of the loops                                   *)

RECURSIVE ValidateRun(_, _, _)

\* the iterations of validate'str loop after the one that left r
ValidateRunNext(str, r, cursor, dim) ==
  << [cursor |-> cursor, dim |-> dim, after |-> r] >> \o
    (IF r.ret = Continue THEN ValidateRun(str, r.cursor, r.dim) ELSE << >>)

\* the iterations of validate'str loop from cursor and dim: what each was
\* entered with and what it left
ValidateRun(str, cursor, dim) ==
  IF cursor < Len(str)
    THEN ValidateRunNext(str, validateIter(str, cursor, dim), cursor, dim)
    ELSE << >>

RECURSIVE AppendParseRun(_, _, _, _)

AppendParseRunNext(str, r, cursor, dim) ==
  << [cursor |-> cursor, dim |-> dim, after |-> r] >> \o
    (IF r.err = Continue THEN AppendParseRun(r.dst, str, r.cursor, r.dim) ELSE << >>)

\* the iterations of AppendParse'str loop
AppendParseRun(dst, str, cursor, dim) ==
  IF cursor < Len(str)
    THEN AppendParseRunNext(str, AppendParseIter(dst, str, cursor, dim), cursor, dim)
    ELSE << >>

\* each iteration of the run returns an error or advances the cursor and adds
\* one to the dimension counter; there are at most len(s) iterations and a run
\* without error ends with the cursor at len(s)
Progress(run, str, stop(_), failed) ==
  /\ Len(run) <= Len(str)
  /\ \A k \in 1..Len(run) :
       /\ stop(run[k].after) =>
            /\ k = Len(run)
            /\ failed
       /\ ~stop(run[k].after) =>
            /\ run[k].after.cursor >= run[k].cursor + 1
            /\ run[k].after.cursor <= Len(str)
            /\ run[k].after.dim = run[k].dim + 1
            /\ k < Len(run) =>
                 /\ run[k + 1].cursor = run[k].after.cursor
                 /\ run[k + 1].dim = run[k].after.dim
  /\ ~failed => (Len(run) >= 1 /\ run[Len(run)].after.cursor = Len(str))

ValidateStops(r) == r.ret # Continue

AppendParseStops(r) == r.err # Continue

\* the loop of the bounded validate makes progress
ValidateProgress ==
  (pc = "validated" /\ Len(s) \in 1..MaxStringLen /\ isLower(s[1])) =>
    Progress(ValidateRun(s, 0, 0), s, ValidateStops, err # Nil)

\* the loop of AppendParse makes progress
AppendParseProgress ==
  (pc = "checked" /\ ret.op = "SliceParse" /\ Len(s) >= 1) =>
    Progress(AppendParseRun(<< >>, s, 0, 0), s, AppendParseStops, err # Nil)

\* writeAlpha fills at most 14 of the 20 bytes of its buffer, and
\* findLengthAndBase returns, for the large indices
EncodersTerminate ==
  (pc \in {"spelled", "hung"} /\ ret.op = "indexToLetters") =>
    /\ Len(writeAlpha(ret.wide[1], 97)) \in 1..14
    /\ pc = "spelled"

\* writeAlpha and findLengthAndBase on the indices 0..18277 and those of
\* "aaaa" and "zzzz", and the bounded encoders on 0..255
SmallEncodersTerminate ==
  (pc = "letters" /\ ret.op = "indexToLetters") =>
    /\ indexToLettersHalts(I64(ret.int))
    /\ Len(writeAlpha(I64(ret.int), 97)) \in 1..4
    /\ ret.int <= MaxIndex =>
         /\ Len(EncodedLower(ret.int)) = alphaLength(ret.int)
         /\ Len(EncodedUpper(ret.int)) = alphaLength(ret.int)
         /\ encodeDigit(ZeroBuf, 0, ret.int).n = digitLength(ret.int)

\* C27: every scan terminates with progress (the loops of the bounded
\* validate and of AppendParse return an error or advance the cursor and add
\* one to the dimension counter in each iteration, and end with the cursor at
\* len(s) on success), and the letter encoders (writeAlpha, findLengthAndBase,
\* encodeLower, encodeUpper, encodeDigit) terminate for every non-negative
\* index.
C27_ProgressAndTermination ==
  /\ ValidateProgress
  /\ AppendParseProgress
  /\ SmallEncodersTerminate
  /\ EncodersTerminate

----------------------------------------------------------------------------
(* The length bound                                                        *)

\* the exact decoders below count up to MaxIndex + 2, which stands for every
\* larger value
Saturated(n) == IF n > MaxIndex + 2 THEN MaxIndex + 2 ELSE n

\* the exact index of a run of letters, not reduced modulo 2^64
RECURSIVE ExactLetterValue(_, _, _, _)
ExactLetterValue(run, base, i, val) ==
  IF i < Len(run)
    THEN ExactLetterValue(run, base, i + 1, Saturated(val * 26 + (run[i + 1] - base) + 1))
    ELSE val - 1

\* the exact index of a run of digits
RECURSIVE ExactDigitValue(_, _, _)
ExactDigitValue(run, i, val) ==
  IF i < Len(run)
    THEN ExactDigitValue(run, i + 1, Saturated(val * 10 + (run[i + 1] - 48)))
    ELSE val - 1

\* str is one to three well-formed runs (a-z, then 1-9 0-9*, then A-Z), each
\* of them worth an index of at most 255
RunsInRange(str) ==
  /\ End1(str) >= 1
  /\ ExactLetterValue(Run1(str), 97, 0, 0) <= MaxIndex
  /\ \/ End1(str) = Len(str)
     \/ /\ End2(str) > End1(str)
        /\ Run2(str)[1] # 48
        /\ ExactDigitValue(Run2(str), 0, 0) <= MaxIndex
        /\ \/ End2(str) = Len(str)
           \/ /\ End3(str) > End2(str)
              /\ End3(str) = Len(str)
              /\ ExactLetterValue(Run3(str), 65, 0, 0) <= MaxIndex

\* the checks of validate that follow the length check
RemainingChecks(str) ==
  IF ~isLower(str[1]) THEN ErrInvalidStart ELSE validateLoop(str, 0, 0)

\* C28 as stated: no string of more than 7 bytes is one to three well-formed
\* runs in range, so that the ErrInputTooLong check never rejects a string
\* that the remaining checks would accept; 7 bytes are attained by the encoder
\* ("iv256IV").
C28_LengthCheckRedundant ==
  /\ (pc = "validated" /\ Len(s) > MaxStringLen) => ~RunsInRange(s)
  /\ (pc = "validated" /\ err = ErrInputTooLong) => RemainingChecks(s) # Nil
  /\ (pc = "shown" /\ c.dims = 3 /\ \A i \in 1..3 : c.indices[i] = MaxIndex) =>
       (Len(out) = MaxStringLen /\ Validate(out) = Nil)

\* C28, with the remaining checks as the program computes them: no string of
\* more than 7 bytes is one to three well-formed runs in range, Validate
\* accepts exactly the strings that are, and rejects every longer string with
\* ErrInputTooLong; 7 bytes are attained by the encoder ("iv256IV").  The
\* remaining checks reject a string that is too long except where a run's
\* index is reduced modulo 2^64 to at most 255.
C28_TightBound ==
  /\ (pc = "validated" /\ Len(s) > MaxStringLen) =>
       (~RunsInRange(s) /\ err = ErrInputTooLong)
  /\ pc = "validated" => (err = Nil <=> RunsInRange(s))
  /\ (pc = "validated" /\ err = ErrInputTooLong /\ RemainingChecks(s) = Nil) =>
       \/ ExactLetterValue(Run1(s), 97, 0, 0) > MaxIndex
       \/ ExactDigitValue(Run2(s), 0, 0) > MaxIndex
       \/ ExactLetterValue(Run3(s), 65, 0, 0) > MaxIndex
  /\ (pc = "shown" /\ c.dims = 3 /\ \A i \in 1..3 : c.indices[i] = MaxIndex) =>
       (Len(out) = MaxStringLen /\ Validate(out) = Nil)

\* Validate rejected a run of 14 letters as too long; its index is above 255
\* and the remaining checks accept it
C28_Witness ==
  /\ pc = "validated"
  /\ s = << 100, 97, 97, 97, 97, 97, 97, 97, 97, 97, 97, 97, 97, 97 >>
  /\ err = ErrInputTooLong
  /\ ~RunsInRange(s)
  /\ RemainingChecks(s) = Nil

----------------------------------------------------------------------------
(* The unchecked parse behind validate                                     *)

RECURSIVE ParseSteps(_, _, _)

\* the iterations of parse's loop on str after the iteration st
ParseStepsNext(str, st) ==
  << st >> \o ParseSteps(str, st.cursor, st.dim + 1)

\* the iterations of parse's loop on str from cursor and dim, up to the first
\* one that writes outside the array
ParseSteps(str, cursor, dim) ==
  IF cursor < Len(str) /\ dim <= MaxDimensions
    THEN ParseStepsNext(str, parseStep(str, cursor, dim))
    ELSE << >>

\* the iterations of parse on str are safe and agree with those of validate:
\* the same non-empty runs, slots 0..2, values in 0..255 that validate compared
\* with MaxIndex, and these values are the indices of coord
SafeSteps(str, steps, checked, coord) ==
  /\ Len(steps) \in 1..MaxDimensions
  /\ Len(steps) = Len(checked)
  /\ coord.dims = Len(steps)
  /\ \A k \in 1..Len(steps) :
       /\ steps[k].cursor > steps[k].start
       /\ steps[k].dim = k - 1
       /\ steps[k].dim < MaxDimensions
       /\ ~I64Neg(steps[k].val)
       /\ ~I64Gt(steps[k].val, MaxIndex)
       /\ steps[k].val = I64(coord.indices[k])
       /\ checked[k].cursor = steps[k].start
       /\ checked[k].dim = steps[k].dim
       /\ checked[k].after.ret = Continue
       /\ checked[k].after.cursor = steps[k].cursor
       /\ coord.indices[k] = ExpectedIndex(str, k - 1)
  /\ \A k \in (Len(steps) + 1)..MaxDimensions : coord.indices[k] = 0

\* C29: Parse runs the unchecked parse only on a string that validate
\* accepted, and on such a string parse is safe: every run it scans is
\* non-empty, the dimension counter is below 3 at every write to the array,
\* every value converted to uint8 is in 0..255, and the indices of the result
\* are the values that validate compared with MaxIndex; the write never
\* panics, and a rejected string gives the zero Coordinate.
C29_ParseSafe ==
  /\ from = "Parse" => pc # "panic"
  /\ (pc = "failed" /\ from = "Parse") =>
       (validate(s) # Nil /\ err = validate(s) /\ c = ZeroCoordinate)
  /\ (pc = "have" /\ from = "Parse") =>
       /\ validate(s) = Nil
       /\ err = Nil
       /\ SafeSteps(s, ParseSteps(s, 0, 0), ValidateRun(s, 0, 0), c)

\* Parse("iv256IV") returned (255, 255, 255)
C29_Witness ==
  /\ pc = "have"
  /\ from = "Parse"
  /\ s = << 105, 118, 50, 53, 54, 73, 86 >>
  /\ c = [indices |-> [i \in 1..MaxDimensions |-> MaxIndex], dims |-> 3]
  /\ Len(ParseSteps(s, 0, 0)) = 3

----------------------------------------------------------------------------
(* What Format of the slice-returning variant can return                   *)

\* Format of the empty list is the empty string
FormatOfNothing ==
  (pc \in {"formatted", "reparsed"} /\ given = << >>) => out = << >>

\* MustFormat returns the string that Format returned for the same list
MustFormatIsFormat ==
  (pc = "formatted" /\ ret.op = "MustFormat") => ret.seq = out

\* the list has no negative index and no index whose run overflows int
Representable(indices) ==
  \A i \in 1..Len(indices) :
    ~I64Neg(indices[i]) /\ (i % 3 = 2 => indices[i] # MaxInt64)

\* Parse accepts what Format returned for a non-empty list without negative
\* index of at most MaxInt - 1 in a numeric position
RepresentableAccepted ==
  (pc = "reparsed" /\ given # << >> /\ Representable(given)) =>
    (out # << >> /\ err = Nil)

\* C30: for every argument list, negative indices included, Format returns
\* the empty string or a string that Parse accepts; Format of the empty list
\* is the empty string; MustFormat returns what Format returns.
C30_FormatNeverGarbage ==
  /\ pc = "reparsed" => (out = << >> \/ err = Nil)
  /\ FormatOfNothing
  /\ MustFormatIsFormat

====
